---- MODULE Spec2Model ----
(***************************************************************************)
(* Model of the crypto chart analyzer's core: the indicator engine         *)
(* (MarketDataService, src/unnamed/part_000), the setup generator          *)
(* (AdvancedAnalysisService.performTechnicalAnalysis, src/unnamed/part_001)*)
(* and the persistence of a trade setup (analyzeChart, getUserAnalyses).   *)
(*                                                                         *)
(* JavaScript numbers are modelled as exact rationals extended with the    *)
(* IEEE-754 special values NaN and +/-Infinity: a number is a record       *)
(* [k, n, d] with k = "fin" (the rational n/d, d > 0, in lowest terms),    *)
(* k = "inf" (n = 1 or -1 gives the sign) or k = "nan".  Rounding of the   *)
(* binary64 format is not modelled; division by zero, NaN propagation and  *)
(* the comparisons with NaN are.                                           *)
(***************************************************************************)
EXTENDS Integers, Sequences, FiniteSets, TLC

VARIABLES
    currentPrice,   \* marketData.price handed to performTechnicalAnalysis
    indicators,     \* the TechnicalIndicators bundle handed to it
    analysis,       \* what performTechnicalAnalysis returned, or NoResult
    prices,         \* the close series handed to calculateRSI, calculateSMA, calculateEMA
    rsiResult,      \* what calculateRSI returned, or NoResult
    maPeriod,       \* the period handed to calculateSMA and calculateEMA
    smaResult,      \* what calculateSMA returned, or NoResult
    emaResult,      \* what calculateEMA returned, or NoResult
    candlesticks,   \* marketData.candlesticks, oldest first
    stored,         \* the row analyzeChart wrote to blink.db.analyses, or NoResult
    restored,       \* the TradeSetup getUserAnalyses rebuilt from it, or NoResult
    symbol,         \* the pair handed to getMarketData
    tickerResponse, \* the ticker/24hr request: "pending", "ok" or "failed"
    candlesResponse,\* the klines request: "none", "pending", "ok" or "failed"
    clock,          \* Date.now(), in milliseconds from the start of the call
    randomState,    \* the state of the generator behind Math.random
    mockCandlesticks, \* the candlesticks array getMockMarketData is filling
    marketData,     \* what getMarketData returned, NoResult before, Thrown if it rejected
    users,          \* the rows of blink.db.users: none or the user's record
    analyses,       \* the rows of blink.db.analyses, in the order they were created
    uploads,        \* the calls whose chart image is in blink.storage
    today,          \* the calendar day of the wall clock
    calls,          \* the analyzeChart invocations: their position, locals and result
    statsCall,      \* the getUserStats invocation: its position and its `now`
    planCall,       \* the updateUserPlan invocation: its position and its plan
    adminView,      \* the plan the AdminPanel shows for the user, "" before it loaded
    user,           \* ChartAnalysis: the signed-in user, "" when none
    analysisMode,   \* ChartAnalysis: "upload" or "live"
    uploadedFile,   \* ChartAnalysis: whether a chart image is selected
    isAnalyzing,    \* ChartAnalysis: the state behind the disabled Analyze button
    error,          \* ChartAnalysis: the error text shown, "" for null
    currentAnalysis,\* ChartAnalysis: whether a trade setup is shown
    inFlight        \* the handleAnalyze invocations awaiting analyzeChart

vars == <<currentPrice, indicators, analysis, prices, rsiResult,
          maPeriod, smaResult, emaResult, candlesticks, stored, restored,
          symbol, tickerResponse, candlesResponse, clock, randomState,
          mockCandlesticks, marketData, users, analyses, uploads, today, calls,
          statsCall, planCall, adminView, user, analysisMode, uploadedFile,
          isAnalyzing, error, currentAnalysis, inFlight>>

setupVars == <<currentPrice, indicators, analysis>>

rsiVars == <<prices, rsiResult>>

maVars == <<maPeriod, smaResult, emaResult>>

engineVars == <<candlesticks, stored, restored>>

marketVars == <<symbol, tickerResponse, candlesResponse, clock, randomState,
                mockCandlesticks, marketData>>

quotaVars == <<users, analyses, uploads, today, calls, statsCall, planCall, adminView>>

uiVars == <<user, analysisMode, uploadedFile, isAnalyzing, error, currentAnalysis,
            inFlight>>

\* the variables of the analysis core
coreVars == <<setupVars, rsiVars, maVars, engineVars>>

\* the variables of the services around the analysis core
serviceVars == <<marketVars, quotaVars, uiVars>>

NoResult == [k |-> "none", n |-> 0, d |-> 0]

\* the moving-average calls have not been made
MAIdle == maPeriod = 0 /\ smaResult = NoResult /\ emaResult = NoResult

\* no market data has been received, nothing is persisted
EngineIdle == candlesticks = <<>> /\ stored = NoResult /\ restored = NoResult

\* getMarketData has not been called
MarketIdle ==
    /\ symbol = ""
    /\ tickerResponse = "none"
    /\ candlesResponse = "none"
    /\ clock = 0
    /\ randomState = 0
    /\ mockCandlesticks = <<>>
    /\ marketData = NoResult

\* updateUserPlan is not running
IdlePlanCall == [pc |-> "idle", plan |-> "", now |-> 0]

\* the AdminPanel is not mounted: no row is shown, no toggleUserPlan is running
IdleAdminView == [pc |-> "idle", shown |-> "", newPlan |-> ""]

\* no user record, no analysis, no call of the quota services
QuotaIdle ==
    /\ users = <<>>
    /\ analyses = <<>>
    /\ uploads = {}
    /\ today = 0
    /\ calls = <<>>
    /\ statsCall = [pc |-> "idle", now |-> 0]
    /\ planCall = IdlePlanCall
    /\ adminView = IdleAdminView

\* the ChartAnalysis component is not mounted
UIIdle ==
    /\ user = ""
    /\ analysisMode = "live"
    /\ uploadedFile = FALSE
    /\ isAnalyzing = FALSE
    /\ error = ""
    /\ currentAnalysis = ""
    /\ inFlight = 0

\* the analysis core is idle
CoreIdle ==
    /\ currentPrice = NoResult
    /\ indicators = NoResult
    /\ analysis = NoResult
    /\ prices = <<>>
    /\ rsiResult = NoResult
    /\ MAIdle
    /\ EngineIdle

\* the services around the analysis core are idle
ServiceIdle == MarketIdle /\ QuotaIdle /\ UIIdle

----------------------------------------------------------------------------
(* JavaScript number arithmetic                                            *)

NaN == [k |-> "nan", n |-> 0, d |-> 0]

\* the value undefined: what reading an array outside its bounds gives
Undefined == [k |-> "undef", n |-> 0, d |-> 0]

\* undefined as an operand of arithmetic is NaN
ToNumber(a) == IF a.k = "undef" THEN NaN ELSE a

\* a call that ended by throwing a TypeError instead of returning
Thrown == [k |-> "threw", n |-> 0, d |-> 0]

Infinity == [k |-> "inf", n |-> 1, d |-> 0]

NegInfinity == [k |-> "inf", n |-> -1, d |-> 0]

IntAbs(i) == IF i < 0 THEN -i ELSE i

Sign(i) == IF i < 0 THEN -1 ELSE IF i > 0 THEN 1 ELSE 0

RECURSIVE GCD(_, _)
GCD(a, b) == IF b = 0 THEN a ELSE GCD(b, a % b)

\* the rational n/d (d # 0) in lowest terms with a positive denominator
Fin(n, d) ==
    LET g == GCD(IntAbs(n), IntAbs(d))
        s == IF d < 0 THEN -1 ELSE 1
    IN  [k |-> "fin", n |-> s * (n \div g), d |-> s * (d \div g)]

Num(i) == [k |-> "fin", n |-> i, d |-> 1]

IsNaN(a) == a.k = "nan"

Neg(a) == IF a.k = "nan" THEN NaN ELSE [a EXCEPT !.n = -a.n]

MathAbs(a) == IF a.k = "nan" THEN NaN ELSE [a EXCEPT !.n = IntAbs(a.n)]

Add(a, b) ==
    IF a.k = "nan" \/ b.k = "nan" THEN NaN
    ELSE IF a.k = "inf" /\ b.k = "inf" THEN (IF a.n = b.n THEN a ELSE NaN)
    ELSE IF a.k = "inf" THEN a
    ELSE IF b.k = "inf" THEN b
    ELSE IF a.d = b.d THEN Fin(a.n + b.n, a.d)
    ELSE LET g == GCD(a.d, b.d)
         IN  Fin(a.n * (b.d \div g) + b.n * (a.d \div g), (a.d \div g) * b.d)

Sub(a, b) == Add(a, Neg(b))

Mul(a, b) ==
    IF a.k = "nan" \/ b.k = "nan" THEN NaN
    ELSE IF a.k = "inf" \/ b.k = "inf"
         THEN (IF a.n = 0 \/ b.n = 0 THEN NaN
               ELSE [k |-> "inf", n |-> Sign(a.n) * Sign(b.n), d |-> 0])
    ELSE LET g1 == GCD(IntAbs(a.n), b.d)
             g2 == GCD(IntAbs(b.n), a.d)
         IN  Fin((a.n \div g1) * (b.n \div g2), (a.d \div g2) * (b.d \div g1))

\* a / b: x/0 is +/-Infinity for x # 0, 0/0 and Infinity/Infinity are NaN
Div(a, b) ==
    IF a.k = "nan" \/ b.k = "nan" THEN NaN
    ELSE IF a.k = "inf"
         THEN (IF b.k = "inf" THEN NaN
               ELSE [k |-> "inf", n |-> a.n * (IF b.n < 0 THEN -1 ELSE 1), d |-> 0])
    ELSE IF b.k = "inf" THEN Num(0)
    ELSE IF b.n = 0
         THEN (IF a.n = 0 THEN NaN
               ELSE [k |-> "inf", n |-> Sign(a.n), d |-> 0])
    ELSE Fin(a.n * b.d, a.d * b.n)

\* a < b; false as soon as one side is NaN (undefined compares as NaN)
Lt(a, b) ==
    /\ a.k \notin {"nan", "undef"}
    /\ b.k \notin {"nan", "undef"}
    /\ IF a.k = "inf" THEN a.n < 0 /\ b # a
       ELSE IF b.k = "inf" THEN b.n > 0
       ELSE IF a.d = b.d THEN a.n < b.n
       ELSE LET g == GCD(a.d, b.d)
            IN  a.n * (b.d \div g) < b.n * (a.d \div g)

Gt(a, b) == Lt(b, a)

\* Math.max / Math.min of three arguments: NaN as soon as one argument is NaN
MathMax(a, b, c) ==
    IF a.k = "nan" \/ b.k = "nan" \/ c.k = "nan" THEN NaN
    ELSE LET m == IF Lt(a, b) THEN b ELSE a
         IN  IF Lt(m, c) THEN c ELSE m

MathMin(a, b, c) ==
    IF a.k = "nan" \/ b.k = "nan" \/ c.k = "nan" THEN NaN
    ELSE LET m == IF Lt(b, a) THEN b ELSE a
         IN  IF Lt(c, m) THEN c ELSE m

RECURSIVE Pow10(_)
Pow10(e) == IF e = 0 THEN 1 ELSE 10 * Pow10(e - 1)

\* Number.prototype.toFixed(digits): the decimal with `digits` fraction digits
\* nearest to a (ties away from zero), kept as the rational it denotes; the
\* text of a non-finite number is the number itself ("NaN", "Infinity")
ToFixed(a, digits) ==
    IF a.k # "fin" THEN a
    ELSE LET p == Pow10(digits)
             m == IntAbs(a.n) * p
             q == (2 * m + a.d) \div (2 * a.d)
         IN  Fin(Sign(a.n) * q, p)

----------------------------------------------------------------------------
(* Setup generator: AdvancedAnalysisService.performTechnicalAnalysis       *)

RECURSIVE SumScores(_)
SumScores(scores) ==
    IF scores = <<>> THEN 0 ELSE Head(scores) + SumScores(Tail(scores))

IntMax(a, b) == IF a > b THEN a ELSE b

IntMin(a, b) == IF a < b THEN a ELSE b

\* mutant: the upper clamp is missing
calculateConfidence_NoUpperClamp(scores) == IntMax(25, SumScores(scores))

\* calculateConfidence(scores): the total clamped to 25..95
calculateConfidence(scores) == IntMin(95, IntMax(25, SumScores(scores)))

\* mutant: the bearish test forgets the MACD condition
DetermineTrend_NoMacd(price, ind) ==
    IF Gt(price, ind.sma20) /\ Gt(ind.sma20, ind.sma50)
       /\ Gt(ind.macd.macd, ind.macd.signal)
    THEN "bullish"
    ELSE IF Lt(price, ind.sma20) /\ Lt(ind.sma20, ind.sma50)
    THEN "bearish"
    ELSE "sideways"

\* "Determine trend"
DetermineTrend(price, ind) ==
    IF Gt(price, ind.sma20) /\ Gt(ind.sma20, ind.sma50)
       /\ Gt(ind.macd.macd, ind.macd.signal)
    THEN "bullish"
    ELSE IF Lt(price, ind.sma20) /\ Lt(ind.sma20, ind.sma50)
            /\ Lt(ind.macd.macd, ind.macd.signal)
    THEN "bearish"
    ELSE "sideways"

\* mutant: the stop loss takes the lowest of the three levels
BullishLevels_MinStop(price, ind) ==
    [entry       |-> Mul(price, Fin(1002, 1000)),
     stopLoss    |-> MathMin(ind.support, ind.bollinger.lower, Mul(price, Fin(95, 100))),
     takeProfit1 |-> MathMin(ind.resistance, ind.bollinger.upper, Mul(price, Fin(108, 100))),
     takeProfit2 |-> Mul(price, Fin(115, 100))]

\* the bullish branch: entry, stop loss and take profits
BullishLevels(price, ind) ==
    [entry       |-> Mul(price, Fin(1002, 1000)),
     stopLoss    |-> MathMax(ind.support, ind.bollinger.lower, Mul(price, Fin(95, 100))),
     takeProfit1 |-> MathMin(ind.resistance, ind.bollinger.upper, Mul(price, Fin(108, 100))),
     takeProfit2 |-> Mul(price, Fin(115, 100))]

\* mutant: the overbought test is <= 70
BullishScores_Rsi70(price, ind) ==
    << IF ~Gt(ind.rsi, Num(70)) /\ ~IsNaN(ind.rsi) THEN 20 ELSE 0,
       IF Gt(ind.macd.macd, ind.macd.signal) THEN 25 ELSE 0,
       IF Gt(price, ind.sma20) THEN 20 ELSE 0,
       IF Gt(ind.sma20, ind.sma50) THEN 15 ELSE 0,
       IF Gt(price, ind.bollinger.middle) THEN 20 ELSE 0 >>

\* the bullish branch: the checklist handed to calculateConfidence
BullishScores(price, ind) ==
    << IF Lt(ind.rsi, Num(70)) THEN 20 ELSE 0,
       IF Gt(ind.macd.macd, ind.macd.signal) THEN 25 ELSE 0,
       IF Gt(price, ind.sma20) THEN 20 ELSE 0,
       IF Gt(ind.sma20, ind.sma50) THEN 15 ELSE 0,
       IF Gt(price, ind.bollinger.middle) THEN 20 ELSE 0 >>

\* the bullish branch: the reasoning lines, each with the values it prints
BullishReasoning(price, ind) ==
    << <<"Bullish trend identified with price above key moving averages">>,
       <<"RSI at", ToFixed(ind.rsi, 1),
         IF Lt(ind.rsi, Num(70)) THEN "room for upward movement"
                                 ELSE "potential overbought condition">>,
       <<"MACD", IF Gt(ind.macd.macd, ind.macd.signal)
                 THEN "bullish crossover" ELSE "showing weakness">>,
       <<"Strong support level identified at", ToFixed(ind.support, 2)>>,
       <<"Target resistance at", ToFixed(ind.resistance, 2)>> >>

\* mutant: the first target ignores the 8% cap
BearishLevels_NoCap(price, ind) ==
    [entry       |-> Mul(price, Fin(998, 1000)),
     stopLoss    |-> MathMin(ind.resistance, ind.bollinger.upper, Mul(price, Fin(105, 100))),
     takeProfit1 |-> MathMax(ind.support, ind.bollinger.lower, ind.bollinger.lower),
     takeProfit2 |-> Mul(price, Fin(85, 100))]

\* the bearish branch: entry, stop loss and take profits
BearishLevels(price, ind) ==
    [entry       |-> Mul(price, Fin(998, 1000)),
     stopLoss    |-> MathMin(ind.resistance, ind.bollinger.upper, Mul(price, Fin(105, 100))),
     takeProfit1 |-> MathMax(ind.support, ind.bollinger.lower, Mul(price, Fin(92, 100))),
     takeProfit2 |-> Mul(price, Fin(85, 100))]

\* mutant: the alignment of the averages counts 10 points
BearishScores_Alignment10(price, ind) ==
    << IF Gt(ind.rsi, Num(30)) THEN 20 ELSE 0,
       IF Lt(ind.macd.macd, ind.macd.signal) THEN 25 ELSE 0,
       IF Lt(price, ind.sma20) THEN 20 ELSE 0,
       IF Lt(ind.sma20, ind.sma50) THEN 10 ELSE 0,
       IF Lt(price, ind.bollinger.middle) THEN 20 ELSE 0 >>

\* the bearish branch: the checklist handed to calculateConfidence
BearishScores(price, ind) ==
    << IF Gt(ind.rsi, Num(30)) THEN 20 ELSE 0,
       IF Lt(ind.macd.macd, ind.macd.signal) THEN 25 ELSE 0,
       IF Lt(price, ind.sma20) THEN 20 ELSE 0,
       IF Lt(ind.sma20, ind.sma50) THEN 15 ELSE 0,
       IF Lt(price, ind.bollinger.middle) THEN 20 ELSE 0 >>

\* the bearish branch: the reasoning lines
BearishReasoning(price, ind) ==
    << <<"Bearish trend identified with price below key moving averages">>,
       <<"RSI at", ToFixed(ind.rsi, 1),
         IF Gt(ind.rsi, Num(30)) THEN "room for downward movement"
                                 ELSE "potential oversold condition">>,
       <<"MACD", IF Lt(ind.macd.macd, ind.macd.signal)
                 THEN "bearish crossover" ELSE "showing strength">>,
       <<"Strong resistance level identified at", ToFixed(ind.resistance, 2)>>,
       <<"Target support at", ToFixed(ind.support, 2)>> >>

\* the else branch ("Sideways/range trading"): the conditionals on
\* trend === 'bullish' are the code's, evaluated with the trend of this branch
SidewaysLevels(price, ind, trend) ==
    [entry       |-> price,
     stopLoss    |-> IF trend = "bullish" THEN ind.support ELSE ind.resistance,
     takeProfit1 |-> IF trend = "bullish" THEN ind.resistance ELSE ind.support,
     takeProfit2 |-> IF trend = "bullish" THEN Mul(ind.resistance, Fin(102, 100))
                                          ELSE Mul(ind.support, Fin(98, 100))]

\* the else branch: the reasoning lines
SidewaysReasoning(price, ind) ==
    << <<"Sideways market identified - range trading opportunity">>,
       <<"Price consolidating between support and resistance",
         ToFixed(ind.support, 2), ToFixed(ind.resistance, 2)>>,
       <<"RSI suggests neutral momentum", ToFixed(ind.rsi, 1)>>,
       <<"Consider waiting for clearer directional bias">>,
       <<"Risk management crucial in ranging markets">> >>

\* mutant: the reward is not taken in absolute value
RiskReward_SignedReward(entry, stopLoss, takeProfit1) ==
    Div(Sub(takeProfit1, entry), MathAbs(Sub(entry, stopLoss)))

\* riskReward = Math.abs(takeProfit1 - entry) / Math.abs(entry - stopLoss)
RiskReward(entry, stopLoss, takeProfit1) ==
    Div(MathAbs(Sub(takeProfit1, entry)), MathAbs(Sub(entry, stopLoss)))

\* rsi.toFixed, support.toFixed and resistance.toFixed are called in every
\* branch: on undefined the call throws a TypeError
performTechnicalAnalysis(price, ind) ==
    IF ind.rsi.k = "undef" \/ ind.support.k = "undef" \/ ind.resistance.k = "undef"
    THEN Thrown
    ELSE
    LET trend == DetermineTrend(price, ind)
        levels == IF trend = "bullish" THEN BullishLevels(price, ind)
                  ELSE IF trend = "bearish" THEN BearishLevels(price, ind)
                  ELSE SidewaysLevels(price, ind, trend)
        confidence == IF trend = "bullish"
                      THEN calculateConfidence(BullishScores(price, ind))
                      ELSE IF trend = "bearish"
                      THEN calculateConfidence(BearishScores(price, ind))
                      ELSE 45
        reasoning == IF trend = "bullish" THEN BullishReasoning(price, ind)
                     ELSE IF trend = "bearish" THEN BearishReasoning(price, ind)
                     ELSE SidewaysReasoning(price, ind)
    IN  [entry       |-> levels.entry,
         stopLoss    |-> levels.stopLoss,
         takeProfit1 |-> levels.takeProfit1,
         takeProfit2 |-> levels.takeProfit2,
         confidence  |-> confidence,
         trend       |-> trend,
         riskReward  |-> RiskReward(levels.entry, levels.stopLoss, levels.takeProfit1),
         reasoning   |-> reasoning]

----------------------------------------------------------------------------
(* Inputs of the setup generator                                           *)

\* how far, in price ticks, the levels next to the price are enumerated
MaxTicks == 1

\* current prices: 500 * 1.002 = 501 and 500 * 0.998 = 499 are levels next to
\* the price, so that entry = stopLoss also happens in a directional setup
PriceValues == {500, 1000}

Near(p) == {p + t : t \in (0 - MaxTicks)..MaxTicks}

\* levels beyond the 5% and 8% distances the directional branches cap at
FarBelow(p) == {p - 50, p - 30}

FarAbove(p) == {p + 30, p + 50}

\* 30 and 70 are the thresholds of the checklist; NaN is what calculateRSI
\* returns for a flat series
RsiValues == {NaN, Num(30), Fin(1001, 20), Num(70)}

\* a bundle whose levels are whole prices; the histogram is macd - signal
Bundle(r, m, sig, s20, s50, bu, bm, bl, su, re) ==
    [rsi        |-> r,
     macd       |-> [macd |-> Num(m), signal |-> Num(sig), histogram |-> Num(m - sig)],
     sma20      |-> Num(s20),
     sma50      |-> Num(s50),
     ema20      |-> Num(s20),
     bollinger  |-> [upper |-> Num(bu), middle |-> Num(bm), lower |-> Num(bl)],
     support    |-> Num(su),
     resistance |-> Num(re)]

\* the data model's bundle: lower <= middle <= upper, support <= resistance
ValidBundle(ind) ==
    /\ ~Lt(ind.bollinger.middle, ind.bollinger.lower)
    /\ ~Lt(ind.bollinger.upper, ind.bollinger.middle)
    /\ ~Lt(ind.resistance, ind.support)

----------------------------------------------------------------------------
(* The setup generator as a state machine: the inputs of one call, then the  *)
(* call                                                                    *)

Init ==
    /\ \E p \in PriceValues, r \in RsiValues, m \in {-1, 0, 1}, sig \in {0} :
         \E s20 \in Near(p), bm \in Near(p),
            su \in Near(p) \cup FarBelow(p), re \in Near(p) \cup FarAbove(p) :
           \E s50 \in {s20 - 1, s20, s20 + 1},
              bu \in Near(p) \cup {p + 50}, bl \in Near(p) \cup {p - 50} :
             /\ ValidBundle(Bundle(r, m, sig, s20, s50, bu, bm, bl, su, re))
             /\ currentPrice = Num(p)
             /\ indicators = Bundle(r, m, sig, s20, s50, bu, bm, bl, su, re)
    /\ analysis = NoResult
    /\ prices = <<>>
    /\ rsiResult = NoResult
    /\ MAIdle
    /\ EngineIdle
    /\ ServiceIdle

\* the call performTechnicalAnalysis(marketData, indicators)
PerformTechnicalAnalysis ==
    /\ currentPrice # NoResult
    /\ indicators # NoResult
    /\ analysis = NoResult
    /\ analysis' = performTechnicalAnalysis(currentPrice, indicators)
    /\ UNCHANGED <<currentPrice, indicators, rsiVars, maVars, engineVars, serviceVars>>

Next == PerformTechnicalAnalysis

Spec == Init /\ [][Next]_vars

----------------------------------------------------------------------------
(* Indicator engine: MarketDataService.calculateRSI                        *)

\* prices[i] with the 0-based index of the code; reading outside the array
\* gives undefined, which arithmetic turns into NaN
At(series, i) ==
    IF i >= 0 /\ i < Len(series) THEN Num(series[i + 1]) ELSE NaN

\* the for loop of calculateRSI from iteration i on, with the sums so far
RECURSIVE RSILoop(_, _, _, _, _)
RSILoop(series, period, i, gains, losses) ==
    IF i > period THEN [gains |-> gains, losses |-> losses]
    ELSE LET change == Sub(At(series, Len(series) - i), At(series, Len(series) - i - 1))
         IN  IF Gt(change, Num(0))
             THEN RSILoop(series, period, i + 1, Add(gains, change), losses)
             ELSE RSILoop(series, period, i + 1, gains, Sub(losses, change))

\* mutant: the history test is off by one (length < period)
calculateRSI_ShortGuard(series, period) ==
    IF Len(series) < period THEN Num(50)
    ELSE LET sums == RSILoop(series, period, 1, Num(0), Num(0))
             avgGain == Div(sums.gains, Num(period))
             avgLoss == Div(sums.losses, Num(period))
             rs == Div(avgGain, avgLoss)
         IN  Sub(Num(100), Div(Num(100), Add(Num(1), rs)))

calculateRSI(series, period) ==
    IF Len(series) < period + 1 THEN Num(50)
    ELSE LET sums == RSILoop(series, period, 1, Num(0), Num(0))
             avgGain == Div(sums.gains, Num(period))
             avgLoss == Div(sums.losses, Num(period))
             rs == Div(avgGain, avgLoss)
         IN  Sub(Num(100), Div(Num(100), Add(Num(1), rs)))

\* calculateTechnicalIndicators calls calculateRSI(closes, 14)
RSI_PERIOD == 14

\* the longest close series enumerated
MaxLen == 16

\* the closes a series is made of: rises, falls and flat stretches all occur
CloseValues == {100, 101}

InitRSI ==
    /\ currentPrice = NoResult
    /\ indicators = NoResult
    /\ analysis = NoResult
    /\ prices = <<>>
    /\ rsiResult = NoResult
    /\ MAIdle
    /\ EngineIdle
    /\ ServiceIdle

\* the market data source delivers one more candle's close
PushClose ==
    /\ rsiResult = NoResult
    /\ Len(prices) < MaxLen
    /\ \E c \in CloseValues : prices' = Append(prices, c)
    /\ UNCHANGED <<setupVars, rsiResult, maVars, engineVars, serviceVars>>

\* the call calculateRSI(closes, 14)
CalculateRSI ==
    /\ rsiResult = NoResult
    /\ rsiResult' = calculateRSI(prices, RSI_PERIOD)
    /\ UNCHANGED <<setupVars, prices, maVars, engineVars, serviceVars>>

NextRSI == PushClose \/ CalculateRSI

SpecRSI == InitRSI /\ [][NextRSI]_vars

----------------------------------------------------------------------------
(* Indicator engine: MarketDataService.calculateSMA and calculateEMA       *)

\* series[i] for a number array, with the 0-based index of the code
Elem(series, i) ==
    IF i >= 0 /\ i < Len(series) THEN series[i + 1] ELSE Undefined

\* an array of closes as an array of numbers
NumSeq(closes) == [i \in 1..Len(closes) |-> Num(closes[i])]

\* series.slice(-count): the last count elements, all of them if there are fewer
SliceLast(series, count) ==
    IF count >= Len(series) THEN series
    ELSE SubSeq(series, Len(series) - count + 1, Len(series))

\* series.reduce((a, b) => a + b, 0)
\* reduce((a, b) => a + b, acc) from element i on (1-based), left to right; a
\* NaN sum stays NaN whatever is added to it
RECURSIVE SumLoop(_, _, _)
SumLoop(series, i, acc) ==
    IF i > Len(series) THEN acc
    ELSE LET next == Add(acc, series[i])
         IN  IF IsNaN(next) THEN NaN ELSE SumLoop(series, i + 1, next)

SumNum(series) == SumLoop(series, 1, Num(0))

\* mutant: the fallback reads one element past the end
calculateSMA_PastEnd(series, p) ==
    IF Len(series) < p THEN Elem(series, Len(series))
    ELSE Div(SumNum(SliceLast(series, p)), Num(p))

\* mutant: the sum of the last period prices is divided by the length of the series
calculateSMA_DivLength(series, p) ==
    IF Len(series) < p THEN Elem(series, Len(series) - 1)
    ELSE Div(SumNum(SliceLast(series, p)), Num(Len(series)))

calculateSMA(series, p) ==
    IF Len(series) < p THEN Elem(series, Len(series) - 1)
    ELSE Div(SumNum(SliceLast(series, p)), Num(p))

\* the for loop of calculateEMA from index i on, with the average so far
RECURSIVE EMALoop(_, _, _, _)
EMALoop(series, multiplier, i, ema) ==
    IF i >= Len(series) THEN ema
    ELSE LET next == Add(Mul(Elem(series, i), multiplier),
                         Mul(ema, Sub(Num(1), multiplier)))
         IN  IF IsNaN(next) THEN NaN
             ELSE EMALoop(series, multiplier, i + 1, next)

\* mutant: the seed is the mean of the last period prices
calculateEMA_SeedLast(series, p) ==
    IF Len(series) < p THEN Elem(series, Len(series) - 1)
    ELSE EMALoop(series, Div(Num(2), Num(p + 1)), p,
                 calculateSMA(SliceLast(series, p), p))

calculateEMA(series, p) ==
    IF Len(series) < p THEN Elem(series, Len(series) - 1)
    ELSE EMALoop(series, Div(Num(2), Num(p + 1)), p,
                 calculateSMA(SubSeq(series, 1, p), p))

\* the largest period and the longest series the two averages are applied to
MaxPeriod == 3

MaxMALen == 6

\* the prices such a series is made of
MAValues == {100, 101, 103}

InitMA ==
    /\ currentPrice = NoResult
    /\ indicators = NoResult
    /\ analysis = NoResult
    /\ prices = <<>>
    /\ rsiResult = NoResult
    /\ maPeriod \in 1..MaxPeriod
    /\ smaResult = NoResult
    /\ emaResult = NoResult
    /\ EngineIdle
    /\ ServiceIdle

\* the caller's series grows by one price
PushPrice ==
    /\ smaResult = NoResult
    /\ emaResult = NoResult
    /\ Len(prices) < MaxMALen
    /\ \E c \in MAValues : prices' = Append(prices, c)
    /\ UNCHANGED <<setupVars, rsiResult, maVars, engineVars, serviceVars>>

\* the call calculateSMA(prices, period)
CalculateSMA ==
    /\ smaResult = NoResult
    /\ smaResult' = calculateSMA(NumSeq(prices), maPeriod)
    /\ UNCHANGED <<setupVars, rsiVars, maPeriod, emaResult, engineVars, serviceVars>>

\* the call calculateEMA(prices, period)
CalculateEMA ==
    /\ emaResult = NoResult
    /\ emaResult' = calculateEMA(NumSeq(prices), maPeriod)
    /\ UNCHANGED <<setupVars, rsiVars, maPeriod, smaResult, engineVars, serviceVars>>

NextMA == PushPrice \/ CalculateSMA \/ CalculateEMA

SpecMA == InitMA /\ [][NextMA]_vars

----------------------------------------------------------------------------
(* Indicator engine: calculateMACD, calculateBollingerBands and            *)
(* calculateTechnicalIndicators                                            *)

\* the greatest r in lo..hi with r * r <= n (lo * lo <= n)
RECURSIVE ISqrt(_, _, _)
ISqrt(n, lo, hi) ==
    IF lo >= hi THEN lo
    ELSE LET mid == (lo + hi + 1) \div 2
         IN  IF mid * mid <= n THEN ISqrt(n, mid, hi) ELSE ISqrt(n, lo, mid - 1)

\* Math.sqrt: NaN for NaN and for a negative number; the root of a finite
\* number is kept to three decimals, rounded down (exact for 0)
MathSqrt(a) ==
    IF a.k = "nan" THEN NaN
    ELSE IF a.k = "inf" THEN (IF a.n > 0 THEN a ELSE NaN)
    ELSE IF a.n < 0 THEN NaN
    ELSE LET thousandths == (a.n \div a.d) * 1000 + ((a.n % a.d) * 1000) \div a.d
         IN  Fin(ISqrt(thousandths * 1000, 0, 46340), 1000)

\* mutant: the signal line is the 9-period average of the closes
calculateMACD_SignalOfCloses(closes) ==
    LET ema12 == calculateEMA(closes, 12)
        ema26 == calculateEMA(closes, 26)
        macd == Sub(ToNumber(ema12), ToNumber(ema26))
        signal == calculateEMA(closes, 9)
    IN  [macd |-> macd, signal |-> signal, histogram |-> Sub(macd, ToNumber(signal))]

\* mutant: the signal line is taken as 0 instead of the average of [macd]
calculateMACD_ZeroSignal(closes) ==
    LET ema12 == calculateEMA(closes, 12)
        ema26 == calculateEMA(closes, 26)
        macd == Sub(ToNumber(ema12), ToNumber(ema26))
        signal == Num(0)
    IN  [macd |-> macd, signal |-> signal,
         histogram |-> Sub(ToNumber(macd), ToNumber(signal))]

calculateMACD(closes) ==
    LET ema12 == calculateEMA(closes, 12)
        ema26 == calculateEMA(closes, 26)
        macd == Sub(ToNumber(ema12), ToNumber(ema26))
        signal == calculateEMA(<<macd>>, 9)
    IN  [macd |-> macd, signal |-> signal,
         histogram |-> Sub(ToNumber(macd), ToNumber(signal))]

\* recentPrices.reduce((sum, price) => sum + Math.pow(price - sma, 2), 0)
RECURSIVE SumSquares(_, _)
SumSquares(series, sma) ==
    IF series = <<>> THEN Num(0)
    ELSE LET dev == Sub(series[Len(series)], ToNumber(sma))
         IN  Add(SumSquares(SubSeq(series, 1, Len(series) - 1), sma), Mul(dev, dev))

\* mutant: the bands are attached to the wrong sides
calculateBollingerBands_Swapped(closes, p, stdDev) ==
    LET sma == calculateSMA(closes, p)
        variance == Div(SumSquares(SliceLast(closes, p), sma), Num(p))
        standardDeviation == MathSqrt(variance)
    IN  [upper  |-> Sub(ToNumber(sma), Mul(standardDeviation, Num(stdDev))),
         middle |-> sma,
         lower  |-> Add(ToNumber(sma), Mul(standardDeviation, Num(stdDev)))]

calculateBollingerBands(closes, p, stdDev) ==
    LET sma == calculateSMA(closes, p)
        variance == Div(SumSquares(SliceLast(closes, p), sma), Num(p))
        standardDeviation == MathSqrt(variance)
    IN  [upper  |-> Add(ToNumber(sma), Mul(standardDeviation, Num(stdDev))),
         middle |-> sma,
         lower  |-> Sub(ToNumber(sma), Mul(standardDeviation, Num(stdDev)))]

\* Math.min(...series) and Math.max(...series); Infinity and -Infinity for none
RECURSIVE MinOf(_)
MinOf(series) ==
    IF series = <<>> THEN Infinity
    ELSE LET rest == MinOf(SubSeq(series, 1, Len(series) - 1))
             last == series[Len(series)]
         IN  IF last.k = "nan" \/ rest.k = "nan" THEN NaN
             ELSE IF Lt(last, rest) THEN last ELSE rest

RECURSIVE MaxOf(_)
MaxOf(series) ==
    IF series = <<>> THEN NegInfinity
    ELSE LET rest == MaxOf(SubSeq(series, 1, Len(series) - 1))
             last == series[Len(series)]
         IN  IF last.k = "nan" \/ rest.k = "nan" THEN NaN
             ELSE IF Gt(last, rest) THEN last ELSE rest

\* mutant: support and resistance look at the whole series
calculateTechnicalIndicators_AllBars(candles) ==
    LET closes == [i \in 1..Len(candles) |-> Num(candles[i].close)]
        highs == [i \in 1..Len(candles) |-> Num(candles[i].high)]
        lows == [i \in 1..Len(candles) |-> Num(candles[i].low)]
    IN  [rsi        |-> calculateRSI([i \in 1..Len(candles) |-> candles[i].close], 14),
         macd       |-> calculateMACD(closes),
         sma20      |-> calculateSMA(closes, 20),
         sma50      |-> calculateSMA(closes, 50),
         ema20      |-> calculateEMA(closes, 20),
         bollinger  |-> calculateBollingerBands(closes, 20, 2),
         support    |-> MinOf(lows),
         resistance |-> MaxOf(highs)]

calculateTechnicalIndicators(candles) ==
    LET closes == [i \in 1..Len(candles) |-> Num(candles[i].close)]
        highs == [i \in 1..Len(candles) |-> Num(candles[i].high)]
        lows == [i \in 1..Len(candles) |-> Num(candles[i].low)]
    IN  [rsi        |-> calculateRSI([i \in 1..Len(candles) |-> candles[i].close], 14),
         macd       |-> calculateMACD(closes),
         sma20      |-> calculateSMA(closes, 20),
         sma50      |-> calculateSMA(closes, 50),
         ema20      |-> calculateEMA(closes, 20),
         bollinger  |-> calculateBollingerBands(closes, 20, 2),
         support    |-> MinOf(SliceLast(lows, 20)),
         resistance |-> MaxOf(SliceLast(highs, 20))]

----------------------------------------------------------------------------
(* The pipeline of analyzeLiveData as a state machine: the candles arrive,  *)
(* the indicators are computed, the setup is generated from the ticker     *)
(* price                                                                   *)

\* the longest series received
MaxCandles == 60

\* series of up to MaxFree candles are enumerated freely
MaxFree == 4

\* longer series are a ramp (a constant step of -1, 0 or 1 between closes, wicks
\* of 1) followed by at most MaxTail free candles
MaxTail == 1

\* the close of the first candle
FirstCloses == {100}

\* how far a close moves from the previous one
CloseSteps == {-1, 0, 1}

\* the wicks of a candle: high = close + up, low = close - down
WickShapes == {[up |-> 1, down |-> 1], [up |-> 0, down |-> 2]}

Candle(c, shape) == [close |-> c, high |-> c + shape.up, low |-> c - shape.down]

IsRamp(series) ==
    /\ \A i \in 1..Len(series) :
          series[i].high = series[i].close + 1 /\ series[i].low = series[i].close - 1
    /\ \A i \in 2..(Len(series) - 1) :
          series[i + 1].close - series[i].close = series[2].close - series[1].close

\* the series the model enumerates
InScope(series) ==
    \/ Len(series) <= MaxFree
    \/ /\ Len(series) <= MaxCandles
       /\ \E t \in 0..MaxTail : IsRamp(SubSeq(series, 1, Len(series) - t))

InitEngine ==
    /\ currentPrice = NoResult
    /\ indicators = NoResult
    /\ analysis = NoResult
    /\ prices = <<>>
    /\ rsiResult = NoResult
    /\ MAIdle
    /\ EngineIdle
    /\ ServiceIdle

\* getMarketData: the response holds one more candle
PushCandle ==
    /\ indicators = NoResult
    /\ \E c \in (IF candlesticks = <<>> THEN FirstCloses
                 ELSE {candlesticks[Len(candlesticks)].close + st : st \in CloseSteps}),
          shape \in WickShapes :
          /\ InScope(Append(candlesticks, Candle(c, shape)))
          /\ candlesticks' = Append(candlesticks, Candle(c, shape))
    /\ UNCHANGED <<setupVars, rsiVars, maVars, stored, restored, serviceVars>>

\* the call calculateTechnicalIndicators(marketData.candlesticks)
CalculateTechnicalIndicators ==
    /\ indicators = NoResult
    /\ indicators' = calculateTechnicalIndicators(candlesticks)
    /\ UNCHANGED <<currentPrice, analysis, rsiVars, maVars, engineVars, serviceVars>>

\* the ticker prices: the last close or one tick beside it
TickerPrices ==
    IF candlesticks = <<>> THEN FirstCloses
    ELSE {candlesticks[Len(candlesticks)].close + st : st \in CloseSteps}

\* marketData.price, read by performTechnicalAnalysis
ReceiveTicker ==
    /\ indicators # NoResult
    /\ currentPrice = NoResult
    /\ \E p \in TickerPrices : currentPrice' = Num(p)
    /\ UNCHANGED <<indicators, analysis, rsiVars, maVars, engineVars, serviceVars>>

\* Number.prototype.toString: the text of a number. A finite number is written
\* as the shortest decimal that reads back as the same number, kept here as the
\* number it denotes; the other values have texts of their own
NumberToString(a) ==
    IF a.k = "fin" THEN [text |-> "decimal", n |-> a.n, d |-> a.d]
    ELSE IF a.k = "inf" THEN [text |-> IF a.n > 0 THEN "Infinity" ELSE "-Infinity", n |-> 0, d |-> 1]
    ELSE IF a.k = "nan" THEN [text |-> "NaN", n |-> 0, d |-> 1]
    ELSE Thrown

\* parseFloat: a decimal and the two infinities are read; any other text is NaN
parseFloat(t) ==
    IF t.text = "decimal" THEN Fin(t.n, t.d)
    ELSE IF t.text = "Infinity" THEN Infinity
    ELSE IF t.text = "-Infinity" THEN NegInfinity
    ELSE NaN

\* the value null
Null == [k |-> "null", n |-> 0, d |-> 0]

\* JSON.stringify of a property holding a number: a finite number is written as
\* toString writes it, NaN and the infinities are written as null, and a
\* property holding undefined is left out of the object
JSONStringifyNumber(a) ==
    IF a.k = "fin" THEN NumberToString(a)
    ELSE IF a.k = "undef" THEN [text |-> "", n |-> 0, d |-> 1]
    ELSE [text |-> "null", n |-> 0, d |-> 1]

\* JSON.parse of a property: a number, null, or undefined for a missing property
JSONParseNumber(t) ==
    IF t.text = "decimal" THEN Fin(t.n, t.d)
    ELSE IF t.text = "null" THEN Null
    ELSE Undefined

\* JSON.stringify(tradeSetup.technicalIndicators)
JSONStringifyIndicators(ind) ==
    [rsi |-> JSONStringifyNumber(ind.rsi),
     macd |-> [macd |-> JSONStringifyNumber(ind.macd.macd),
               signal |-> JSONStringifyNumber(ind.macd.signal),
               histogram |-> JSONStringifyNumber(ind.macd.histogram)],
     sma20 |-> JSONStringifyNumber(ind.sma20),
     sma50 |-> JSONStringifyNumber(ind.sma50),
     ema20 |-> JSONStringifyNumber(ind.ema20),
     bollinger |-> [upper |-> JSONStringifyNumber(ind.bollinger.upper),
                    middle |-> JSONStringifyNumber(ind.bollinger.middle),
                    lower |-> JSONStringifyNumber(ind.bollinger.lower)],
     support |-> JSONStringifyNumber(ind.support),
     resistance |-> JSONStringifyNumber(ind.resistance)]

\* JSON.parse(analysis.technicalData)
JSONParseIndicators(t) ==
    [rsi |-> JSONParseNumber(t.rsi),
     macd |-> [macd |-> JSONParseNumber(t.macd.macd),
               signal |-> JSONParseNumber(t.macd.signal),
               histogram |-> JSONParseNumber(t.macd.histogram)],
     sma20 |-> JSONParseNumber(t.sma20),
     sma50 |-> JSONParseNumber(t.sma50),
     ema20 |-> JSONParseNumber(t.ema20),
     bollinger |-> [upper |-> JSONParseNumber(t.bollinger.upper),
                    middle |-> JSONParseNumber(t.bollinger.middle),
                    lower |-> JSONParseNumber(t.bollinger.lower)],
     support |-> JSONParseNumber(t.support),
     resistance |-> JSONParseNumber(t.resistance)]

\* the row analyzeChart writes for a trade setup (its numeric columns)
AnalysisRow(setup, ind) ==
    [entry |-> NumberToString(setup.entry),
     stopLoss |-> NumberToString(setup.stopLoss),
     takeProfit1 |-> NumberToString(setup.takeProfit1),
     takeProfit2 |-> NumberToString(setup.takeProfit2),
     confidence |-> NumberToString(Num(setup.confidence)),
     trend |-> setup.trend,
     riskReward |-> NumberToString(setup.riskReward),
     technicalData |-> JSONStringifyIndicators(ind)]

\* the trade setup getUserAnalyses builds from a row
RowToTradeSetup(row) ==
    [entry |-> parseFloat(row.entry),
     stopLoss |-> parseFloat(row.stopLoss),
     takeProfit1 |-> parseFloat(row.takeProfit1),
     takeProfit2 |-> parseFloat(row.takeProfit2),
     confidence |-> parseFloat(row.confidence),
     trend |-> row.trend,
     riskReward |-> parseFloat(row.riskReward),
     technicalIndicators |-> JSONParseIndicators(row.technicalData)]

\* analyzeChart: blink.db.analyses.create, after the analysis returned a setup
SaveAnalysis ==
    /\ analysis # NoResult
    /\ analysis # Thrown
    /\ stored = NoResult
    /\ stored' = AnalysisRow(analysis, indicators)
    /\ UNCHANGED <<setupVars, rsiVars, maVars, candlesticks, restored, serviceVars>>

\* getUserAnalyses: the stored row is read back
GetUserAnalyses ==
    /\ stored # NoResult
    /\ restored = NoResult
    /\ restored' = RowToTradeSetup(stored)
    /\ UNCHANGED <<setupVars, rsiVars, maVars, candlesticks, stored, serviceVars>>

NextEngine ==
    \/ PushCandle
    \/ CalculateTechnicalIndicators
    \/ ReceiveTicker
    \/ PerformTechnicalAnalysis
    \/ SaveAnalysis
    \/ GetUserAnalyses

SpecEngine == InitEngine /\ [][NextEngine]_vars

----------------------------------------------------------------------------
(* getMarketData and its fallback getMockMarketData (specification         *)
(* SpecMarket).  Math.random is a deterministic generator with an unknown  *)
(* seed: a full-period congruential generator modulo RngModulus stands for *)
(* it, its seed is drawn by InitMarket.                                     *)

\* the number of candles getMockMarketData builds
MOCK_CANDLES == 100

\* milliseconds between two mock candles
HOUR_MS == 3600000

\* the number of values Math.random can return in the model
RngModulus == 8

\* the generator's next state
NextRandom(x) == (5 * x + 3) % RngModulus

\* the state after `count` calls of Math.random
RECURSIVE Advance(_, _)
Advance(x, count) == IF count = 0 THEN x ELSE Advance(NextRandom(x), count - 1)

\* the value Math.random returns in state x: a number in [0, 1)
MathRandom(x) == Fin(x, RngModulus)

\* the milliseconds the clock may show during a call
MaxClock == 2

\* inside the loop the clock is seen to move every TickStride candles only
TickStride == 25

basePrice(sym) ==
    IF sym \in {"BTC/USDT"} THEN Num(45000)
    ELSE IF sym \in {"ETH/USDT"} THEN Num(2800)
    ELSE Num(1)

\* mutant: the wicks are drawn inside the body of the candle
MockCandle_WicksInside(sym, now, i, x) ==
    LET half == Fin(1, 2)
        open == Add(basePrice(sym),
                    Mul(Mul(Sub(MathRandom(x), half), basePrice(sym)), Fin(2, 100)))
        close == Add(open,
                     Mul(Mul(Sub(MathRandom(Advance(x, 1)), half), open), Fin(1, 100)))
        body == MathAbs(Sub(open, close))
    IN  [timestamp |-> now - i * HOUR_MS,
         open |-> open,
         high |-> Sub(MaxOf(<<open, close>>), Mul(MathRandom(Advance(x, 2)), body)),
         low |-> Add(MinOf(<<open, close>>), Mul(MathRandom(Advance(x, 3)), body)),
         close |-> close,
         volume |-> Mul(MathRandom(Advance(x, 4)), Num(1000000))]

\* the candle of loop index i, built at clock `now` with the generator in state x
MockCandle(sym, now, i, x) ==
    LET half == Fin(1, 2)
        open == Add(basePrice(sym),
                    Mul(Mul(Sub(MathRandom(x), half), basePrice(sym)), Fin(2, 100)))
        close == Add(open,
                     Mul(Mul(Sub(MathRandom(Advance(x, 1)), half), open), Fin(1, 100)))
        body == MathAbs(Sub(open, close))
    IN  [timestamp |-> now - i * HOUR_MS,
         open |-> open,
         high |-> Add(MaxOf(<<open, close>>), Mul(MathRandom(Advance(x, 2)), body)),
         low |-> Sub(MinOf(<<open, close>>), Mul(MathRandom(Advance(x, 3)), body)),
         close |-> close,
         volume |-> Mul(MathRandom(Advance(x, 4)), Num(1000000))]

\* the pairs getMarketData is called with
Symbols == {"BTC/USDT", "ETH/USDT", "ADA/USDT"}

\* what the exchange answers when both requests succeed: the candles after the
\* parseFloat mapping, and the last price
LiveCandles ==
    {<<>>,
     <<[timestamp |-> 0, open |-> Num(100), high |-> Num(102), low |-> Num(99),
        close |-> Num(101), volume |-> Num(5)]>>}

LivePrices == {Num(101)}

\* the catch block of getMarketData has been entered
InCatch == tickerResponse = "failed" \/ candlesResponse = "failed"

InitMarket ==
    /\ CoreIdle
    /\ QuotaIdle
    /\ UIIdle
    /\ symbol \in Symbols
    /\ tickerResponse = "pending"
    /\ candlesResponse = "none"
    /\ clock = 0
    /\ randomState \in 0..(RngModulus - 1)
    /\ mockCandlesticks = <<>>
    /\ marketData = NoResult

\* time passes while the call is running
ClockTick ==
    /\ marketData = NoResult
    /\ clock < MaxClock
    /\ Len(mockCandlesticks) % TickStride = 0
    /\ clock' = clock + 1
    /\ UNCHANGED <<coreVars, quotaVars, uiVars, symbol, tickerResponse,
                   candlesResponse, randomState, mockCandlesticks, marketData>>

\* the ticker/24hr request resolves; the klines request is sent
TickerOk ==
    /\ tickerResponse = "pending"
    /\ tickerResponse' = "ok"
    /\ candlesResponse' = "pending"
    /\ UNCHANGED <<coreVars, quotaVars, uiVars, symbol, clock,
                   randomState, mockCandlesticks, marketData>>

\* the ticker/24hr request rejects: the catch block is entered
TickerFails ==
    /\ tickerResponse = "pending"
    /\ tickerResponse' = "failed"
    /\ UNCHANGED <<coreVars, quotaVars, uiVars, symbol, candlesResponse,
                   clock, randomState, mockCandlesticks, marketData>>

\* the klines request resolves: the live data is returned
CandlesOk ==
    /\ candlesResponse = "pending"
    /\ candlesResponse' = "ok"
    /\ \E live \in LiveCandles, p \in LivePrices :
          marketData' = [symbol |-> symbol, price |-> p, candlesticks |-> live]
    /\ UNCHANGED <<coreVars, quotaVars, uiVars, symbol, tickerResponse,
                   clock, randomState, mockCandlesticks>>

\* the klines request rejects, or its answer cannot be mapped: the catch block
CandlesFail ==
    /\ candlesResponse = "pending"
    /\ candlesResponse' = "failed"
    /\ UNCHANGED <<coreVars, quotaVars, uiVars, symbol, tickerResponse,
                   clock, randomState, mockCandlesticks, marketData>>

\* one turn of the loop of getMockMarketData: five calls of Math.random
MockPushCandle ==
    /\ InCatch
    /\ marketData = NoResult
    /\ Len(mockCandlesticks) < MOCK_CANDLES
    /\ mockCandlesticks' =
          Append(mockCandlesticks,
                 MockCandle(symbol, clock, MOCK_CANDLES - 1 - Len(mockCandlesticks),
                            randomState))
    /\ randomState' = Advance(randomState, 5)
    /\ UNCHANGED <<coreVars, quotaVars, uiVars, symbol, tickerResponse,
                   candlesResponse, clock, marketData>>

\* the return of getMockMarketData: the price is the close of the last candle,
\* a read that throws when there is no last candle; two more random numbers
MockReturn ==
    /\ InCatch
    /\ marketData = NoResult
    /\ Len(mockCandlesticks) >= MOCK_CANDLES
    /\ marketData' =
          IF mockCandlesticks = <<>> THEN Thrown
          ELSE [symbol |-> symbol,
                price |-> mockCandlesticks[Len(mockCandlesticks)].close,
                candlesticks |-> mockCandlesticks]
    /\ randomState' = Advance(randomState, 2)
    /\ UNCHANGED <<coreVars, quotaVars, uiVars, symbol, tickerResponse,
                   candlesResponse, clock, mockCandlesticks>>

NextMarket ==
    \/ ClockTick
    \/ TickerOk
    \/ TickerFails
    \/ CandlesOk
    \/ CandlesFail
    \/ MockPushCandle
    \/ MockReturn

SpecMarket == InitMarket /\ [][NextMarket]_vars

----------------------------------------------------------------------------
(* The daily quota: analyzeChart, getUserStats and the two tables they     *)
(* share (specifications SpecQuota and SpecQuotaSeq).  Every await is a    *)
(* step of its own; a rejected await enters the catch block of the call.   *)

\* the concurrent invocations of analyzeChart that are followed
MaxCalls == 2

\* the calendar days that are followed after the first
MaxDays == 1

\* the daily limit of the free plan and of the other plans
FREE_LIMIT == 3

PAID_LIMIT == 999

CallIds == 1..MaxCalls

\* the record initializeUser creates, after `used` analyses on day 0
UserRecord(used) ==
    [plan |-> "free", analysesUsedToday |-> used, dailyLimit |-> FREE_LIMIT,
     isAdmin |-> FALSE, lastAnalysisAt |-> IF used = 0 THEN -1 ELSE 0,
     lastQuotaReset |-> 0]

\* the row of an analysis made before the calls that are followed
EarlierRow == [id |-> 0, analysisType |-> "live"]

IdleCall ==
    [pc |-> "idle", analysisType |-> "live", imageFile |-> FALSE,
     userData |-> NoResult, result |-> NoResult]

\* the AnalysisResult of a refused or failed call
Failure(text) == [success |-> FALSE, error |-> text, quotaRemaining |-> 0]

InitQuota ==
    /\ CoreIdle
    /\ MarketIdle
    /\ UIIdle
    /\ \/ users = <<>> /\ analyses = <<>>
       \/ \E used \in 0..FREE_LIMIT :
             /\ users = <<UserRecord(used)>>
             /\ analyses = [i \in 1..used |-> EarlierRow]
    /\ uploads = {}
    /\ today = 0
    /\ calls = [c \in CallIds |-> IdleCall]
    /\ statsCall = [pc |-> "idle", now |-> 0]
    /\ planCall = IdlePlanCall
    /\ adminView = IdleAdminView

\* midnight passes
NewDay ==
    /\ today < MaxDays
    /\ today' = today + 1
    /\ UNCHANGED <<coreVars, marketVars, uiVars, users, analyses, uploads, calls,
                   statsCall, planCall, adminView>>

\* analyzeChart is invoked; the users table is queried
AnalyzeChart(c) ==
    /\ calls[c].pc = "idle"
    /\ IF c = 1 THEN TRUE ELSE calls[c - 1].pc # "idle"
    /\ \E type \in {"upload", "live"}, file \in BOOLEAN :
          /\ type = "live" => ~file
          /\ calls' = [calls EXCEPT ![c] = [@ EXCEPT !.pc = "list",
                                                     !.analysisType = type,
                                                     !.imageFile = file]]
    /\ UNCHANGED <<coreVars, marketVars, uiVars, users, analyses, uploads, today,
                   statsCall, planCall, adminView>>

\* mutant: the quota test lets a call through when the limit is just reached
CheckQuota_Above(c) ==
    /\ calls[c].pc = "list"
    /\ calls' = [calls EXCEPT ![c] =
          IF users = <<>>
          THEN [@ EXCEPT !.pc = "done", !.result = Failure("User not found")]
          ELSE IF users[1].analysesUsedToday > users[1].dailyLimit
          THEN [@ EXCEPT !.pc = "done",
                         !.result = Failure("Daily analysis limit reached")]
          ELSE [@ EXCEPT !.pc = "analyze", !.userData = users[1]]]
    /\ UNCHANGED <<coreVars, marketVars, uiVars, users, analyses, uploads, today,
                   statsCall, planCall, adminView>>

\* the users query resolves: "Check user quota first"
CheckQuota(c) ==
    /\ calls[c].pc = "list"
    /\ calls' = [calls EXCEPT ![c] =
          IF users = <<>>
          THEN [@ EXCEPT !.pc = "done", !.result = Failure("User not found")]
          ELSE IF users[1].analysesUsedToday >= users[1].dailyLimit
          THEN [@ EXCEPT !.pc = "done",
                         !.result = Failure("Daily analysis limit reached")]
          ELSE [@ EXCEPT !.pc = "analyze", !.userData = users[1]]]
    /\ UNCHANGED <<coreVars, marketVars, uiVars, users, analyses, uploads, today,
                   statsCall, planCall, adminView>>

\* analyzeLiveData or analyzeUploadedChart returns the trade setup; an uploaded
\* image has been put into the storage
AnalyzeData(c) ==
    /\ calls[c].pc = "analyze"
    /\ uploads' = IF calls[c].analysisType = "upload" /\ calls[c].imageFile
                  THEN uploads \cup {c} ELSE uploads
    /\ calls' = [calls EXCEPT ![c] = [@ EXCEPT !.pc = "create"]]
    /\ UNCHANGED <<coreVars, marketVars, uiVars, users, analyses, today,
                   statsCall, planCall, adminView>>

\* "Save analysis to database"
CreateAnalysis(c) ==
    /\ calls[c].pc = "create"
    /\ analyses' = Append(analyses, [id |-> c, analysisType |-> calls[c].analysisType])
    /\ calls' = [calls EXCEPT ![c] = [@ EXCEPT !.pc = "update"]]
    /\ UNCHANGED <<coreVars, marketVars, uiVars, users, uploads, today,
                   statsCall, planCall, adminView>>

\* mutant: the counter is written without the increment
UpdateQuota_NoIncrement(c) ==
    /\ calls[c].pc = "update"
    /\ users # <<>>
    /\ users' = [users EXCEPT ![1] =
          [@ EXCEPT !.analysesUsedToday = calls[c].userData.analysesUsedToday,
                    !.lastAnalysisAt = today]]
    /\ calls' = [calls EXCEPT ![c] =
          [@ EXCEPT !.pc = "done",
                    !.result = [success |-> TRUE, error |-> "",
                                quotaRemaining |->
                                    calls[c].userData.dailyLimit
                                    - (calls[c].userData.analysesUsedToday + 1)]]]
    /\ UNCHANGED <<coreVars, marketVars, uiVars, analyses, uploads, today,
                   statsCall, planCall, adminView>>

\* "Update user quota" from the record read at the start, and the return
UpdateQuota(c) ==
    /\ calls[c].pc = "update"
    /\ users # <<>>
    /\ users' = [users EXCEPT ![1] =
          [@ EXCEPT !.analysesUsedToday = calls[c].userData.analysesUsedToday + 1,
                    !.lastAnalysisAt = today]]
    /\ calls' = [calls EXCEPT ![c] =
          [@ EXCEPT !.pc = "done",
                    !.result = [success |-> TRUE, error |-> "",
                                quotaRemaining |->
                                    calls[c].userData.dailyLimit
                                    - (calls[c].userData.analysesUsedToday + 1)]]]
    /\ UNCHANGED <<coreVars, marketVars, uiVars, analyses, uploads, today,
                   statsCall, planCall, adminView>>

\* an awaited request rejects (the users query, the upload, the analysis, the
\* create or the update): the catch block returns the failure
AnalysisError(c) ==
    /\ calls[c].pc \in {"list", "analyze", "create", "update"}
    /\ calls' = [calls EXCEPT ![c] =
          [@ EXCEPT !.pc = "done",
                    !.result = Failure("Analysis failed. Please try again.")]]
    /\ UNCHANGED <<coreVars, marketVars, uiVars, users, analyses, uploads, today,
                   statsCall, planCall, adminView>>

\* getUserStats is invoked; the users table is queried
GetUserStats ==
    /\ statsCall.pc = "idle"
    /\ statsCall' = [pc |-> "list", now |-> 0]
    /\ UNCHANGED <<coreVars, marketVars, uiVars, users, analyses, uploads, today,
                   calls, planCall, adminView>>

\* the query resolves: "Check if quota needs to be reset (daily reset)"
CheckNewDay ==
    /\ statsCall.pc = "list"
    /\ statsCall' =
          IF users # <<>> /\ users[1].lastQuotaReset # today
          THEN [pc |-> "reset", now |-> today]
          ELSE [pc |-> "idle", now |-> 0]
    /\ UNCHANGED <<coreVars, marketVars, uiVars, users, analyses, uploads, today,
                   calls, planCall, adminView>>

\* the reset is written
ResetQuota ==
    /\ statsCall.pc = "reset"
    /\ users # <<>>
    /\ users' = [users EXCEPT ![1] =
          [@ EXCEPT !.analysesUsedToday = 0, !.lastQuotaReset = statsCall.now]]
    /\ statsCall' = [pc |-> "idle", now |-> 0]
    /\ UNCHANGED <<coreVars, marketVars, uiVars, analyses, uploads, today, calls,
                   planCall, adminView>>

\* the query or the reset rejects: getUserStats returns null
StatsError ==
    /\ statsCall.pc \in {"list", "reset"}
    /\ statsCall' = [pc |-> "idle", now |-> 0]
    /\ UNCHANGED <<coreVars, marketVars, uiVars, users, analyses, uploads, today,
                   calls, planCall, adminView>>

NextQuota ==
    \/ NewDay
    \/ GetUserStats
    \/ CheckNewDay
    \/ ResetQuota
    \/ StatsError
    \/ \E c \in CallIds :
          \/ AnalyzeChart(c)
          \/ CheckQuota(c)
          \/ AnalyzeData(c)
          \/ CreateAnalysis(c)
          \/ UpdateQuota(c)
          \/ AnalysisError(c)

SpecQuota == InitQuota /\ [][NextQuota]_vars

\* no invocation is between its first and its last step
NothingInFlight ==
    /\ statsCall.pc = "idle"
    /\ \A c \in CallIds : calls[c].pc \in {"idle", "done"}

\* analyzeChart invoked after the invocations before it have returned
AnalyzeChartNext(c) == NothingInFlight /\ AnalyzeChart(c)

\* getUserStats invoked while no analyzeChart call is running
GetUserStatsNext == NothingInFlight /\ GetUserStats

NextQuotaSeq ==
    \/ NewDay
    \/ GetUserStatsNext
    \/ CheckNewDay
    \/ ResetQuota
    \/ StatsError
    \/ \E c \in CallIds :
          \/ AnalyzeChartNext(c)
          \/ CheckQuota(c)
          \/ AnalyzeData(c)
          \/ CreateAnalysis(c)
          \/ UpdateQuota(c)
          \/ AnalysisError(c)

SpecQuotaSeq == InitQuota /\ [][NextQuotaSeq]_vars

----------------------------------------------------------------------------
(* The plan of a user: UserService.updateUserPlan and the AdminPanel's     *)
(* toggleUserPlan, both writing the same users row (specification          *)
(* SpecPlan).  Every await is a step of its own.                           *)

Plans == {"free", "pro", "admin"}

InitPlan ==
    /\ CoreIdle
    /\ MarketIdle
    /\ UIIdle
    /\ \/ users = <<>> /\ analyses = <<>>
       \/ \E used \in 0..FREE_LIMIT :
             /\ users = <<UserRecord(used)>>
             /\ analyses = [i \in 1..used |-> EarlierRow]
    /\ uploads = {}
    /\ today = 0
    /\ calls = [c \in CallIds |-> IdleCall]
    /\ statsCall = [pc |-> "idle", now |-> 0]
    /\ planCall = IdlePlanCall
    /\ adminView = IdleAdminView

\* updateUserPlan is invoked; getUserStats queries the users table
UpdateUserPlan(plan) ==
    /\ planCall.pc = "idle"
    /\ planCall' = [pc |-> "stats", plan |-> plan, now |-> 0]
    /\ UNCHANGED <<coreVars, marketVars, uiVars, users, analyses, uploads, today,
                   calls, statsCall, adminView>>

\* getUserStats' query resolves: no user throws 'User not found', a new day
\* resets the quota first
PlanUserStats ==
    /\ planCall.pc = "stats"
    /\ planCall' =
          IF users = <<>> THEN IdlePlanCall
          ELSE IF users[1].lastQuotaReset # today
               THEN [planCall EXCEPT !.pc = "reset", !.now = today]
               ELSE [planCall EXCEPT !.pc = "update"]
    /\ UNCHANGED <<coreVars, marketVars, uiVars, users, analyses, uploads, today,
                   calls, statsCall, adminView>>

\* getUserStats' reset is written
PlanResetQuota ==
    /\ planCall.pc = "reset"
    /\ users # <<>>
    /\ users' = [users EXCEPT ![1] =
          [@ EXCEPT !.analysesUsedToday = 0, !.lastQuotaReset = planCall.now]]
    /\ planCall' = [planCall EXCEPT !.pc = "update"]
    /\ UNCHANGED <<coreVars, marketVars, uiVars, analyses, uploads, today, calls,
                   statsCall, adminView>>

\* updateUserPlan writes plan, dailyLimit and isAdmin and returns true
WritePlan ==
    /\ planCall.pc = "update"
    /\ users # <<>>
    /\ users' = [users EXCEPT ![1] =
          [@ EXCEPT !.plan = planCall.plan,
                    !.dailyLimit = IF planCall.plan = "free" THEN FREE_LIMIT
                                   ELSE PAID_LIMIT,
                    !.isAdmin = (planCall.plan = "admin")]]
    /\ planCall' = IdlePlanCall
    /\ UNCHANGED <<coreVars, marketVars, uiVars, analyses, uploads, today, calls,
                   statsCall, adminView>>

\* a request of updateUserPlan rejects: it returns false
PlanError ==
    /\ planCall.pc \in {"stats", "reset", "update"}
    /\ planCall' = IdlePlanCall
    /\ UNCHANGED <<coreVars, marketVars, uiVars, users, analyses, uploads, today,
                   calls, statsCall, adminView>>

\* loadAdminData is invoked (on mount); the users table is queried
LoadAdminData ==
    /\ adminView.pc = "idle"
    /\ adminView' = [adminView EXCEPT !.pc = "load"]
    /\ UNCHANGED <<coreVars, marketVars, uiVars, users, analyses, uploads, today,
                   calls, statsCall, planCall>>

\* the query resolves: the rows are shown
ShowUsers ==
    /\ adminView.pc = "load"
    /\ adminView' = [pc |-> "idle",
                     shown |-> IF users = <<>> THEN "" ELSE users[1].plan,
                     newPlan |-> ""]
    /\ UNCHANGED <<coreVars, marketVars, uiVars, users, analyses, uploads, today,
                   calls, statsCall, planCall>>

\* the query rejects: the rows shown stay
LoadError ==
    /\ adminView.pc = "load"
    /\ adminView' = [adminView EXCEPT !.pc = "idle", !.newPlan = ""]
    /\ UNCHANGED <<coreVars, marketVars, uiVars, users, analyses, uploads, today,
                   calls, statsCall, planCall>>

\* the Upgrade / Downgrade button of the row shown is clicked
ToggleUserPlan ==
    /\ adminView.pc = "idle"
    /\ adminView.shown # ""
    /\ adminView' = [adminView EXCEPT
          !.pc = "update",
          !.newPlan = IF adminView.shown = "free" THEN "pro" ELSE "free"]
    /\ UNCHANGED <<coreVars, marketVars, uiVars, users, analyses, uploads, today,
                   calls, statsCall, planCall>>

\* toggleUserPlan writes plan and dailyLimit, then refreshes
WriteToggle ==
    /\ adminView.pc = "update"
    /\ users # <<>>
    /\ users' = [users EXCEPT ![1] =
          [@ EXCEPT !.plan = adminView.newPlan,
                    !.dailyLimit = IF adminView.newPlan = "pro" THEN PAID_LIMIT
                                   ELSE FREE_LIMIT]]
    /\ adminView' = [adminView EXCEPT !.pc = "load"]
    /\ UNCHANGED <<coreVars, marketVars, uiVars, analyses, uploads, today, calls,
                   statsCall, planCall>>

\* toggleUserPlan's write rejects
ToggleError ==
    /\ adminView.pc = "update"
    /\ adminView' = [adminView EXCEPT !.pc = "idle", !.newPlan = ""]
    /\ UNCHANGED <<coreVars, marketVars, uiVars, users, analyses, uploads, today,
                   calls, statsCall, planCall>>

NextPlan ==
    \/ NewDay
    \/ \E plan \in Plans : UpdateUserPlan(plan)
    \/ PlanUserStats
    \/ PlanResetQuota
    \/ WritePlan
    \/ PlanError
    \/ LoadAdminData
    \/ ShowUsers
    \/ LoadError
    \/ ToggleUserPlan
    \/ WriteToggle
    \/ ToggleError

SpecPlan == InitPlan /\ [][NextPlan]_vars

----------------------------------------------------------------------------
(* The ChartAnalysis component: handleAnalyze and the Analyze button       *)
(* (specification SpecUI).  The empty string stands for null.  A promise   *)
(* returned by analyzeChart settles, which is the fairness of SpecUI.      *)

\* the trend of the trade setup a successful analysis returns
Trends == {"bullish", "bearish", "sideways"}

\* the error texts of the results analyzeChart returns with success = false
ResultErrors ==
    {"User not found",
     "Daily analysis limit reached. Upgrade to Pro for unlimited analyses.",
     "Analysis failed. Please try again."}

\* the files the file input can deliver: none, an image, another type,
\* an image above 10MB
Files == {"none", "image", "text", "large"}

\* the disabled attribute of the Analyze button
ButtonDisabled == isAnalyzing \/ (analysisMode = "upload" /\ ~uploadedFile)

InitUI ==
    /\ CoreIdle
    /\ MarketIdle
    /\ QuotaIdle
    /\ user \in {"", "u1"}
    /\ analysisMode = "live"
    /\ uploadedFile = FALSE
    /\ isAnalyzing = FALSE
    /\ error = ""
    /\ currentAnalysis = ""
    /\ inFlight = 0

\* one of the two mode buttons is clicked
SetAnalysisMode(mode) ==
    /\ analysisMode' = mode
    /\ UNCHANGED <<coreVars, marketVars, quotaVars, user, uploadedFile,
                   isAnalyzing, error, currentAnalysis, inFlight>>

\* the file input of the upload mode changes
HandleFileUpload(file) ==
    /\ analysisMode = "upload"
    /\ IF file = "none"
       THEN UNCHANGED <<uploadedFile, error>>
       ELSE IF file = "text"
       THEN error' = "Please upload a valid image file"
            /\ UNCHANGED uploadedFile
       ELSE IF file = "large"
       THEN error' = "File size must be less than 10MB"
            /\ UNCHANGED uploadedFile
       ELSE uploadedFile' = TRUE /\ error' = ""
    /\ UNCHANGED <<coreVars, marketVars, quotaVars, user, analysisMode,
                   isAnalyzing, currentAnalysis, inFlight>>

\* the Analyze button is clicked: handleAnalyze up to its await
HandleAnalyze ==
    /\ ~ButtonDisabled
    /\ IF user = ""
       THEN /\ error' = "Please log in to perform analysis"
            /\ UNCHANGED <<isAnalyzing, inFlight>>
       ELSE IF analysisMode = "upload" /\ ~uploadedFile
       THEN /\ error' = "Please upload a chart image first"
            /\ UNCHANGED <<isAnalyzing, inFlight>>
       ELSE /\ isAnalyzing' = TRUE
            /\ error' = ""
            /\ inFlight' = inFlight + 1
    /\ UNCHANGED <<coreVars, marketVars, quotaVars, user, analysisMode,
                   uploadedFile, currentAnalysis>>

\* analyzeChart resolves with success and a trade setup
AnalysisSucceeds(trend) ==
    /\ inFlight > 0
    /\ currentAnalysis' = trend
    /\ isAnalyzing' = FALSE
    /\ inFlight' = inFlight - 1
    /\ UNCHANGED <<coreVars, marketVars, quotaVars, user, analysisMode,
                   uploadedFile, error>>

\* analyzeChart resolves with success = false
AnalysisRefused(text) ==
    /\ inFlight > 0
    /\ error' = text
    /\ isAnalyzing' = FALSE
    /\ inFlight' = inFlight - 1
    /\ UNCHANGED <<coreVars, marketVars, quotaVars, user, analysisMode,
                   uploadedFile, currentAnalysis>>

\* the catch block without the finally block
AnalysisThrows_NoFinally ==
    /\ inFlight > 0
    /\ error' = "Analysis failed. Please try again."
    /\ inFlight' = inFlight - 1
    /\ UNCHANGED <<coreVars, marketVars, quotaVars, user, analysisMode,
                   uploadedFile, currentAnalysis, isAnalyzing>>

\* the awaited call throws: catch, then finally
AnalysisThrows ==
    /\ inFlight > 0
    /\ error' = "Analysis failed. Please try again."
    /\ isAnalyzing' = FALSE
    /\ inFlight' = inFlight - 1
    /\ UNCHANGED <<coreVars, marketVars, quotaVars, user, analysisMode,
                   uploadedFile, currentAnalysis>>

\* the promise of the call in flight settles
AnalysisSettles ==
    \/ \E trend \in Trends : AnalysisSucceeds(trend)
    \/ \E text \in ResultErrors : AnalysisRefused(text)
    \/ AnalysisThrows

NextUI ==
    \/ \E mode \in {"live", "upload"} : SetAnalysisMode(mode)
    \/ \E file \in Files : HandleFileUpload(file)
    \/ HandleAnalyze
    \/ \E trend \in Trends : AnalysisSucceeds(trend)
    \/ \E text \in ResultErrors : AnalysisRefused(text)
    \/ AnalysisThrows

SpecUI == InitUI /\ [][NextUI]_vars /\ WF_vars(AnalysisSettles)

----------------------------------------------------------------------------
(* Properties of the setup generator (specification Spec)                  *)

\* performTechnicalAnalysis has returned
Called == analysis # NoResult

BullishCondition ==
    /\ Gt(currentPrice, indicators.sma20)
    /\ Gt(indicators.sma20, indicators.sma50)
    /\ Gt(indicators.macd.macd, indicators.macd.signal)

BearishCondition ==
    /\ Lt(currentPrice, indicators.sma20)
    /\ Lt(indicators.sma20, indicators.sma50)
    /\ Lt(indicators.macd.macd, indicators.macd.signal)

\* x = price * n / d
IsProduct(x, price, n, d) ==
    x.k = "fin" /\ x.n * price.d * d = price.n * n * x.d

\* x is the greatest (the least) of a, b and c
IsMaxOf3(x, a, b, c) == x \in {a, b, c} /\ ~Lt(x, a) /\ ~Lt(x, b) /\ ~Lt(x, c)

IsMinOf3(x, a, b, c) == x \in {a, b, c} /\ ~Gt(x, a) /\ ~Gt(x, b) /\ ~Gt(x, c)

ClampTo25_95(raw) == IF raw > 95 THEN 95 ELSE IF raw < 25 THEN 25 ELSE raw

\* C1: the returned trend is bullish iff price > sma20 > sma50 and macd > signal,
\* bearish iff price < sma20 < sma50 and macd < signal, sideways in every other
\* case; the two directional conditions are never both true.
C1_TrendClassification ==
    Called =>
        /\ analysis.trend \in {"bullish", "bearish", "sideways"}
        /\ (analysis.trend = "bullish") <=> BullishCondition
        /\ (analysis.trend = "bearish") <=> BearishCondition
        /\ (analysis.trend = "sideways") <=> (~BullishCondition /\ ~BearishCondition)
        /\ ~(BullishCondition /\ BearishCondition)

\* a call that classified a falling market
C1_Witness ==
    Called /\ analysis.trend = "bearish" /\ Lt(currentPrice, indicators.sma20)

\* C2: the confidence is within 25..95, and exactly 45 when the trend is sideways.
C2_ConfidenceRange ==
    Called =>
        /\ analysis.confidence \in 25..95
        /\ (analysis.trend = "sideways" => analysis.confidence = 45)

\* a bullish call whose five checks all pass: the raw 100 is clamped to 95
C2_Witness ==
    /\ Called
    /\ analysis.trend = "bullish"
    /\ Lt(indicators.rsi, Num(70))
    /\ Gt(currentPrice, indicators.bollinger.middle)
    /\ analysis.confidence = 95

\* C3: a sideways setup has entry = price, stopLoss = support,
\* takeProfit1 = resistance and takeProfit2 = resistance * 1.02.
C3_SidewaysLevels ==
    (Called /\ analysis.trend = "sideways") =>
        /\ analysis.entry = currentPrice
        /\ analysis.stopLoss = indicators.support
        /\ analysis.takeProfit1 = indicators.resistance
        /\ IsProduct(analysis.takeProfit2, indicators.resistance, 102, 100)

\* C4: when entry equals stopLoss the risk/reward ratio is never reported as 0,
\* NaN or an infinity (it is a marker of its own).
C4_UndefinedRatioMarker ==
    (Called /\ analysis.entry = analysis.stopLoss) =>
        /\ analysis.riskReward.k \notin {"nan", "inf"}
        /\ analysis.riskReward # Num(0)

\* C5: whenever entry differs from stopLoss, riskReward is the finite number
\* |takeProfit1 - entry| / |entry - stopLoss| of the same result, hence >= 0.
C5_RiskRewardRatio ==
    (Called /\ analysis.entry # analysis.stopLoss) =>
        /\ analysis.riskReward.k = "fin"
        /\ ~Lt(analysis.riskReward, Num(0))
        /\ Mul(analysis.riskReward, MathAbs(Sub(analysis.entry, analysis.stopLoss)))
             = MathAbs(Sub(analysis.takeProfit1, analysis.entry))

\* a sideways call whose target (the support) lies below the entry
C5_Witness ==
    /\ Called
    /\ analysis.trend = "sideways"
    /\ analysis.entry # analysis.stopLoss
    /\ Lt(analysis.takeProfit1, analysis.entry)
    /\ Gt(analysis.riskReward, Num(0))

\* C6: a bullish setup has entry = price * 1.002, stopLoss = max(support,
\* bollinger.lower, price * 0.95), takeProfit1 = min(resistance, bollinger.upper,
\* price * 1.08) and takeProfit2 = price * 1.15.
C6_BullishLevels ==
    (Called /\ analysis.trend = "bullish") =>
        /\ IsProduct(analysis.entry, currentPrice, 1002, 1000)
        /\ IsMaxOf3(analysis.stopLoss, indicators.support, indicators.bollinger.lower,
                    Mul(currentPrice, Fin(95, 100)))
        /\ IsMinOf3(analysis.takeProfit1, indicators.resistance,
                    indicators.bollinger.upper, Mul(currentPrice, Fin(108, 100)))
        /\ IsProduct(analysis.takeProfit2, currentPrice, 115, 100)

\* a bullish call in which the support is the stop loss and the 8% cap is the target
C6_Witness ==
    /\ Called
    /\ analysis.trend = "bullish"
    /\ analysis.stopLoss = indicators.support
    /\ Gt(indicators.support, indicators.bollinger.lower)
    /\ Lt(analysis.takeProfit1, indicators.resistance)
    /\ Lt(analysis.takeProfit1, indicators.bollinger.upper)

\* C7: a bearish setup has entry = price * 0.998, stopLoss = min(resistance,
\* bollinger.upper, price * 1.05), takeProfit1 = max(support, bollinger.lower,
\* price * 0.92) and takeProfit2 = price * 0.85.
C7_BearishLevels ==
    (Called /\ analysis.trend = "bearish") =>
        /\ IsProduct(analysis.entry, currentPrice, 998, 1000)
        /\ IsMinOf3(analysis.stopLoss, indicators.resistance, indicators.bollinger.upper,
                    Mul(currentPrice, Fin(105, 100)))
        /\ IsMaxOf3(analysis.takeProfit1, indicators.support,
                    indicators.bollinger.lower, Mul(currentPrice, Fin(92, 100)))
        /\ IsProduct(analysis.takeProfit2, currentPrice, 85, 100)

\* a bearish call in which the 5% cap is the stop loss and the 8% cap is the target
C7_Witness ==
    /\ Called
    /\ analysis.trend = "bearish"
    /\ Lt(analysis.stopLoss, indicators.resistance)
    /\ Lt(analysis.stopLoss, indicators.bollinger.upper)
    /\ Gt(analysis.takeProfit1, indicators.support)
    /\ Gt(analysis.takeProfit1, indicators.bollinger.lower)

\* C8: for a bullish trend the confidence is the sum of 20 (RSI < 70), 25
\* (macd > signal), 20 (price > sma20), 15 (sma20 > sma50) and 20 (price >
\* bollinger.middle) over the satisfied conditions, clamped to 25..95; for a
\* bearish trend the same with RSI > 30 and the other four comparisons reversed.
C8_ConfidenceChecklist ==
    /\ (Called /\ analysis.trend = "bullish") =>
         analysis.confidence = ClampTo25_95(
             (IF Lt(indicators.rsi, Num(70)) THEN 20 ELSE 0)
           + (IF Gt(indicators.macd.macd, indicators.macd.signal) THEN 25 ELSE 0)
           + (IF Gt(currentPrice, indicators.sma20) THEN 20 ELSE 0)
           + (IF Gt(indicators.sma20, indicators.sma50) THEN 15 ELSE 0)
           + (IF Gt(currentPrice, indicators.bollinger.middle) THEN 20 ELSE 0))
    /\ (Called /\ analysis.trend = "bearish") =>
         analysis.confidence = ClampTo25_95(
             (IF Gt(indicators.rsi, Num(30)) THEN 20 ELSE 0)
           + (IF Lt(indicators.macd.macd, indicators.macd.signal) THEN 25 ELSE 0)
           + (IF Lt(currentPrice, indicators.sma20) THEN 20 ELSE 0)
           + (IF Lt(indicators.sma20, indicators.sma50) THEN 15 ELSE 0)
           + (IF Lt(currentPrice, indicators.bollinger.middle) THEN 20 ELSE 0))

\* a bullish call with the RSI at the overbought threshold and the price above
\* the middle band: 25 + 20 + 15 + 20
C8_Witness ==
    /\ Called
    /\ analysis.trend = "bullish"
    /\ indicators.rsi = Num(70)
    /\ Gt(currentPrice, indicators.bollinger.middle)
    /\ analysis.confidence = 80

\* C23: whenever performTechnicalAnalysis returns a bullish or a bearish trend,
\* for any bundle, the confidence is 60, 80 or 95: never the lower clamp 25.
C23_DirectionalConfidence ==
    (Called /\ analysis.trend \in {"bullish", "bearish"}) =>
        analysis.confidence \in {60, 80, 95}

\* a bearish setup that scores on the three trend conditions only
C23_Witness ==
    /\ Called
    /\ analysis.trend = "bearish"
    /\ analysis.confidence = 60
    /\ ~Gt(indicators.rsi, Num(30))
    /\ ~Lt(currentPrice, indicators.bollinger.middle)

----------------------------------------------------------------------------
(* Properties of calculateRSI (specification SpecRSI)                      *)

RSIReturned == rsiResult # NoResult

\* none of the last `period` deltas of the series is a loss
RECURSIVE NoLossIn(_, _)
NoLossIn(series, count) ==
    \/ count = 0
    \/ /\ series[Len(series)] >= series[Len(series) - 1]
       /\ NoLossIn(SubSeq(series, 1, Len(series) - 1), count - 1)

\* C9: for a series of fewer than 15 closes calculateRSI returns exactly 50,
\* whatever the closes are.
C9_RSIFallback ==
    (RSIReturned /\ Len(prices) < 15) => rsiResult = Num(50)

\* a call on 14 closes that are not all equal
C9_Witness ==
    /\ RSIReturned
    /\ Len(prices) = 14
    /\ prices[1] # prices[14]
    /\ rsiResult = Num(50)

\* C10: for a series of at least 15 closes whose last 14 deltas contain no loss
\* calculateRSI returns 100, and what it returns is always a number in 0..100.
C10_RSIZeroLoss ==
    RSIReturned =>
        /\ rsiResult.k = "fin"
        /\ ~Lt(rsiResult, Num(0))
        /\ ~Gt(rsiResult, Num(100))
        /\ (Len(prices) >= 15 /\ NoLossIn(prices, 14)) => rsiResult = Num(100)

----------------------------------------------------------------------------
(* Properties of calculateSMA and calculateEMA (specification SpecMA)      *)

\* the sum of the closes at positions from..to (1-based)
RECURSIVE IntSum(_, _, _)
IntSum(closes, from, to) ==
    IF from > to THEN 0 ELSE closes[from] + IntSum(closes, from + 1, to)

\* the exponential average of the first n closes (n >= p): the mean of the
\* first p closes for n = p, and close * 2/(p+1) + previous * (p-1)/(p+1) after
RECURSIVE EmaOfPrefix(_, _, _)
EmaOfPrefix(closes, p, n) ==
    IF n = p THEN Fin(IntSum(closes, 1, p), p)
    ELSE Add(Mul(Num(closes[n]), Fin(2, p + 1)),
             Mul(EmaOfPrefix(closes, p, n - 1), Fin(p - 1, p + 1)))

\* C12: with at least period prices calculateEMA starts from the mean of the
\* FIRST period prices and folds ema = price * m + ema * (1 - m), m = 2/(period+1),
\* over the remaining prices in order; with fewer it returns the last price.
C12_EMASeedAndFold ==
    emaResult # NoResult =>
        /\ Len(prices) >= maPeriod => emaResult = EmaOfPrefix(prices, maPeriod, Len(prices))
        /\ (Len(prices) >= 1 /\ Len(prices) < maPeriod) =>
               emaResult = Num(prices[Len(prices)])

\* a call that folds at least two prices onto a seed that differs from the
\* mean of the last period prices
C12_Witness ==
    /\ emaResult # NoResult
    /\ maPeriod = 3
    /\ Len(prices) >= 5
    /\ IntSum(prices, 1, 3) # IntSum(prices, Len(prices) - 2, Len(prices))
    /\ emaResult.k = "fin"

\* C13: with at least period prices calculateSMA returns the mean of the last
\* period prices; with 1 <= length < period it returns the last price.
C13_SMAMean ==
    smaResult # NoResult =>
        /\ Len(prices) >= maPeriod =>
               /\ smaResult.k = "fin"
               /\ Mul(smaResult, Num(maPeriod))
                    = Num(IntSum(prices, Len(prices) - maPeriod + 1, Len(prices)))
        /\ (Len(prices) >= 1 /\ Len(prices) < maPeriod) =>
               smaResult = Num(prices[Len(prices)])

\* a call on more prices than the period, the earlier ones different
C13_Witness ==
    /\ smaResult # NoResult
    /\ maPeriod = 2
    /\ Len(prices) = 4
    /\ prices[1] + prices[2] # prices[3] + prices[4]
    /\ smaResult.k = "fin"

----------------------------------------------------------------------------
(* Properties of the indicator engine and of the pipeline (SpecEngine)     *)

\* calculateTechnicalIndicators has returned
Computed == indicators # NoResult

\* a and b are numbers with a <= b
LeNum(a, b) == a.k \in {"fin", "inf"} /\ b.k \in {"fin", "inf"} /\ ~Lt(b, a)

\* the candles the support and the resistance look at: the last min(20, n)
Window ==
    {i \in 1..Len(candlesticks) : i > Len(candlesticks) - 20}

\* the rising example series: closes 100..159, highs close + 1, lows close - 1
RisingSeries == [i \in 1..60 |-> [close |-> 99 + i, high |-> 100 + i, low |-> 98 + i]]

\* every close of the series is 100
FlatAt100 == \A i \in 1..Len(candlesticks) : candlesticks[i].close = 100

\* C11 as stated: in every call the MACD signal equals the MACD value and the
\* histogram is exactly 0, whatever the length of the series.
C11_MACDCollapseAnyLength ==
    Computed =>
        /\ indicators.macd.signal = indicators.macd.macd
        /\ indicators.macd.histogram = Num(0)

\* C11 amended: for every non-empty series the MACD value is a finite number,
\* the signal equals it and the histogram is exactly 0.
C11_MACDCollapse ==
    (Computed /\ Len(candlesticks) >= 1) =>
        /\ indicators.macd.macd.k = "fin"
        /\ indicators.macd.signal = indicators.macd.macd
        /\ indicators.macd.histogram = Num(0)

\* a series long enough for both averages, with a MACD value other than 0
C11_Witness ==
    /\ Computed
    /\ Len(candlesticks) >= 26
    /\ indicators.macd.macd.k = "fin"
    /\ indicators.macd.macd # Num(0)
    /\ indicators.macd.signal = indicators.macd.macd

\* C14: for every non-empty series, also one of fewer than 20 closes, the bands
\* satisfy lower <= middle <= upper and the middle band is sma20.
C14_BollingerOrder ==
    (Computed /\ Len(candlesticks) >= 1) =>
        /\ indicators.bollinger.middle.k = "fin"
        /\ LeNum(indicators.bollinger.lower, indicators.bollinger.middle)
        /\ LeNum(indicators.bollinger.middle, indicators.bollinger.upper)
        /\ indicators.bollinger.middle = indicators.sma20

\* a series of fewer than 20 closes whose bands are apart
C14_Witness ==
    /\ Computed
    /\ Len(candlesticks) \in 2..19
    /\ Lt(indicators.bollinger.lower, indicators.bollinger.middle)
    /\ Lt(indicators.bollinger.middle, indicators.bollinger.upper)

\* C15: for every non-empty series of candles with low <= high, support is the
\* least low and resistance the greatest high of the last min(20, n) candles,
\* so support <= resistance.
C15_SupportResistance ==
    (/\ Computed
     /\ Len(candlesticks) >= 1
     /\ \A i \in 1..Len(candlesticks) : candlesticks[i].low <= candlesticks[i].high) =>
        /\ \E i \in Window : indicators.support = Num(candlesticks[i].low)
        /\ \A i \in Window : ~Gt(indicators.support, Num(candlesticks[i].low))
        /\ \E i \in Window : indicators.resistance = Num(candlesticks[i].high)
        /\ \A i \in Window : ~Lt(indicators.resistance, Num(candlesticks[i].high))
        /\ LeNum(indicators.support, indicators.resistance)

\* a series of more than 20 candles with a lower low before the last 20
C15_Witness ==
    /\ Computed
    /\ Len(candlesticks) > 20
    /\ Lt(Num(candlesticks[1].low), indicators.support)
    /\ indicators.support.k = "fin"

\* the fields of a bundle are all numbers (NaN and the infinities included)
IsNumber(a) == a.k \in {"fin", "inf", "nan"}

\* C17: for every non-empty series calculateTechnicalIndicators returns a bundle
\* of numbers without raising, and performTechnicalAnalysis returns a trade
\* setup without raising.
C17_NeverRaises ==
    /\ (Computed /\ Len(candlesticks) >= 1) =>
          /\ indicators # Thrown
          /\ IsNumber(indicators.rsi)
          /\ IsNumber(indicators.macd.macd)
          /\ IsNumber(indicators.macd.signal)
          /\ IsNumber(indicators.macd.histogram)
          /\ IsNumber(indicators.sma20)
          /\ IsNumber(indicators.sma50)
          /\ IsNumber(indicators.ema20)
          /\ IsNumber(indicators.bollinger.upper)
          /\ IsNumber(indicators.bollinger.middle)
          /\ IsNumber(indicators.bollinger.lower)
          /\ IsNumber(indicators.support)
          /\ IsNumber(indicators.resistance)
    /\ (Called /\ Len(candlesticks) >= 1) =>
          /\ analysis # Thrown
          /\ analysis.trend \in {"bullish", "bearish", "sideways"}

\* a series of one candle, analysed
C17_Witness ==
    /\ Len(candlesticks) = 1
    /\ Computed
    /\ Called
    /\ analysis # Thrown
    /\ indicators.sma50 = Num(candlesticks[1].close)

\* C18: the rising 60-candle series with current price 159 has sma20 = 149.5 and
\* sma50 = 134.5 and yields a bullish trend.
C18_RisingSeriesBullish ==
    (Called /\ candlesticks = RisingSeries /\ currentPrice = Num(159)) =>
        /\ indicators.sma20 = Fin(299, 2)
        /\ indicators.sma50 = Fin(269, 2)
        /\ analysis.trend = "bullish"

\* C19: a flat series of at least 50 candles closing at 100, with current price
\* 100, has sma20 = sma50 = ema20 = 100, all three bands at 100, an rsi that is a
\* number in 0..100, a sideways trend and confidence 45.
C19_FlatSeries ==
    (Called /\ Len(candlesticks) >= 50 /\ FlatAt100 /\ currentPrice = Num(100)) =>
        /\ indicators.sma20 = Num(100)
        /\ indicators.sma50 = Num(100)
        /\ indicators.ema20 = Num(100)
        /\ indicators.bollinger.upper = Num(100)
        /\ indicators.bollinger.middle = Num(100)
        /\ indicators.bollinger.lower = Num(100)
        /\ indicators.rsi.k = "fin"
        /\ ~Lt(indicators.rsi, Num(0))
        /\ ~Gt(indicators.rsi, Num(100))
        /\ analysis.trend = "sideways"
        /\ analysis.confidence = 45

\* getUserAnalyses has returned the stored setup
Restored == restored # NoResult

\* the six numeric fields of the setup come back as computed
SetupFieldsRestored ==
    /\ restored.entry = analysis.entry
    /\ restored.stopLoss = analysis.stopLoss
    /\ restored.takeProfit1 = analysis.takeProfit1
    /\ restored.takeProfit2 = analysis.takeProfit2
    /\ restored.confidence = Num(analysis.confidence)
    /\ restored.riskReward = analysis.riskReward

\* C20: every setup that was stored is read back with entry, stopLoss,
\* takeProfit1, takeProfit2, confidence, riskReward and every numeric field of
\* technicalIndicators exactly as computed, non-finite values included.
C20_PersistenceRoundTrip ==
    Restored =>
        /\ SetupFieldsRestored
        /\ restored.technicalIndicators = indicators

\* C22: in the composed pipeline (bundle from calculateTechnicalIndicators, then
\* performTechnicalAnalysis) the trend is sideways and the confidence 45 for
\* every series and every current price, because macd.macd equals macd.signal.
C22_PipelineAlwaysSideways ==
    Called =>
        /\ analysis # Thrown
        /\ analysis.trend = "sideways"
        /\ analysis.confidence = 45
        /\ ~Gt(indicators.macd.macd, indicators.macd.signal)
        /\ ~Lt(indicators.macd.macd, indicators.macd.signal)

\* a rising series whose price and averages are aligned upwards with a positive
\* MACD value, and a falling one aligned downwards: both come out sideways
C22_Witness ==
    /\ Called
    /\ Len(candlesticks) >= 50
    /\ \/ /\ Gt(currentPrice, indicators.sma20)
          /\ Gt(indicators.sma20, indicators.sma50)
          /\ Gt(indicators.macd.macd, Num(0))
       \/ /\ Lt(currentPrice, indicators.sma20)
          /\ Lt(indicators.sma20, indicators.sma50)
          /\ Lt(indicators.macd.macd, Num(0))
    /\ analysis.trend = "sideways"

----------------------------------------------------------------------------
(* Properties of getMarketData (specification SpecMarket)                  *)

\* getMarketData has returned after a failed request
ReturnedAfterFailure == InCatch /\ marketData # NoResult

\* low <= min(open, close) <= max(open, close) <= high and volume >= 0
WellFormed(c) ==
    /\ LeNum(c.low, c.open)
    /\ LeNum(c.low, c.close)
    /\ LeNum(c.open, c.high)
    /\ LeNum(c.close, c.high)
    /\ LeNum(Num(0), c.volume)
    /\ c.low.k = "fin" /\ c.high.k = "fin" /\ c.volume.k = "fin"

\* C21: getMarketData never rejects; after a failed request it returns exactly
\* 100 candles, oldest first with strictly increasing timestamps, each with
\* low <= min(open, close) <= max(open, close) <= high and volume >= 0, and a
\* price equal to the close of the last candle.
C21_MockFallback ==
    /\ marketData # Thrown
    /\ ReturnedAfterFailure =>
          /\ Len(marketData.candlesticks) = 100
          /\ \A i \in 1..(Len(marketData.candlesticks) - 1) :
                marketData.candlesticks[i].timestamp
                    < marketData.candlesticks[i + 1].timestamp
          /\ \A i \in 1..Len(marketData.candlesticks) :
                WellFormed(marketData.candlesticks[i])
          /\ marketData.price
                = marketData.candlesticks[Len(marketData.candlesticks)].close

\* the klines request failed after the ticker answered, the clock moved during
\* the loop, and the series holds a rising, a falling and a flat candle
C21_Witness ==
    /\ candlesResponse = "failed"
    /\ marketData # NoResult
    /\ marketData # Thrown
    /\ clock > 0
    /\ \E i \in 1..100 : Lt(marketData.candlesticks[i].open, marketData.candlesticks[i].close)
    /\ \E i \in 1..100 : Gt(marketData.candlesticks[i].open, marketData.candlesticks[i].close)
    /\ \E i \in 1..100 :
          /\ marketData.candlesticks[i].open = marketData.candlesticks[i].close
          /\ marketData.candlesticks[i].high = marketData.candlesticks[i].low

----------------------------------------------------------------------------
(* Properties of the daily quota (specifications SpecQuota, SpecQuotaSeq)  *)

\* the rows of the analyses table written by call c
RowsOf(c) == {i \in 1..Len(analyses) : analyses[i].id = c}

\* the calls that returned success = true
Succeeded == {c \in CallIds : calls[c].pc = "done" /\ calls[c].result.success}

\* call c takes its last step and returns success = true
ReturnsSuccess(c) ==
    /\ calls[c].pc # "done"
    /\ calls'[c].pc = "done"
    /\ calls'[c].result.success

\* the users query of call c resolves in this step
QueryResolves(c) ==
    /\ calls[c].pc = "list"
    /\ calls'[c].pc # "list"
    /\ calls'[c].result # Failure("Analysis failed. Please try again.")

\* no call has ended in its catch block
NoRequestFailed ==
    \A c \in CallIds :
        calls[c].result # Failure("Analysis failed. Please try again.")

\* C24: for any interleaving of concurrent analyzeChart calls of one user, with
\* no quota reset in between, the analyses persisted never exceed dailyLimit and
\* analysesUsedToday ends equal to the number of calls that returned success
\* (on top of the analyses made before); stated for runs in which no request
\* failed.
C24_QuotaUnderConcurrency ==
    (users # <<>> /\ today = 0 /\ NoRequestFailed) =>
        /\ Len(analyses) <= users[1].dailyLimit
        /\ NothingInFlight =>
              users[1].analysesUsedToday
                  = Cardinality(RowsOf(0)) + Cardinality(Succeeded)

\* C25: when the stored analysesUsedToday is >= dailyLimit, or no user record
\* exists, analyzeChart returns success = false with quotaRemaining = 0 and
\* writes nothing: no analysis record, no upload, the user record unchanged.
C25_RefusalWritesNothing ==
    /\ [][\A c \in CallIds :
            (/\ calls[c].pc = "list"
             /\ calls'[c].pc # "list"
             /\ IF users = <<>> THEN TRUE
                ELSE users[1].analysesUsedToday >= users[1].dailyLimit) =>
                /\ calls'[c].pc = "done"
                /\ calls'[c].result.success = FALSE
                /\ calls'[c].result.quotaRemaining = 0
                /\ users' = users
                /\ analyses' = analyses
                /\ uploads' = uploads]_vars
    /\ [](\A c \in CallIds :
            (/\ calls[c].pc = "done"
             /\ calls[c].result.error
                    \in {"User not found", "Daily analysis limit reached"}) =>
                RowsOf(c) = {} /\ c \notin uploads)

\* an upload call refused at the limit, after another call used the last analysis
C25_Witness ==
    /\ users # <<>>
    /\ calls[1].pc = "done"
    /\ calls[1].result.success
    /\ calls[2].pc = "done"
    /\ calls[2].analysisType = "upload"
    /\ calls[2].imageFile
    /\ calls[2].result = Failure("Daily analysis limit reached")
    /\ users[1].analysesUsedToday = users[1].dailyLimit
    /\ uploads = {}

\* C26: for sequential analyzeChart calls, every call that returns success has
\* persisted exactly one analysis record and increased analysesUsedToday by
\* exactly 1; its quotaRemaining is dailyLimit minus the new analysesUsedToday
\* and never negative.
C26_SuccessCountsOnce ==
    [][\A c \in CallIds :
          ReturnsSuccess(c) =>
              /\ Cardinality({i \in 1..Len(analyses') : analyses'[i].id = c}) = 1
              /\ users'[1].analysesUsedToday = users[1].analysesUsedToday + 1
              /\ calls'[c].result.quotaRemaining
                    = users'[1].dailyLimit - users'[1].analysesUsedToday
              /\ calls'[c].result.quotaRemaining >= 0]_vars

\* two calls in a row succeeded; the second used the last analysis of the day
C26_Witness ==
    /\ Succeeded = {1, 2}
    /\ calls[1].result.quotaRemaining = 1
    /\ calls[2].result.quotaRemaining = 0
    /\ users[1].analysesUsedToday = users[1].dailyLimit
    /\ Cardinality(RowsOf(1)) = 1
    /\ Cardinality(RowsOf(2)) = 1

\* C27: after analyzeChart returns, an analysis record of the call exists if and
\* only if analysesUsedToday was incremented for it (the call returned
\* success), also when a database write failed.
C27_PersistenceAtomic ==
    \A c \in CallIds :
        calls[c].pc = "done" => (RowsOf(c) # {} <=> calls[c].result.success)

\* C28: whenever the current date differs from the date of lastQuotaReset, a
\* user is not refused for the quota, whatever the order of getUserStats and
\* analyzeChart calls.
C28_QuotaResetsWithTheDay ==
    [][\A c \in CallIds :
          (/\ QueryResolves(c)
           /\ users # <<>>
           /\ IF users = <<>> THEN FALSE ELSE users[1].lastQuotaReset # today) =>
              calls'[c].pc = "analyze"]_vars

----------------------------------------------------------------------------
(* Properties of the plan updates (specification SpecPlan)                 *)

\* no plan update is between its first and its last step
PlanSettled == planCall.pc = "idle" /\ adminView.pc \in {"idle", "load"}

\* C30: after any sequence of updateUserPlan and toggleUserPlan calls the
\* user row has isAdmin true exactly when its plan is 'admin', and a
\* dailyLimit of 3 exactly when its plan is 'free', 999 otherwise
C30_PlanFieldsConsistent ==
    (PlanSettled /\ users # <<>>) =>
        /\ users[1].isAdmin <=> (users[1].plan = "admin")
        /\ users[1].dailyLimit =
              IF users[1].plan = "free" THEN FREE_LIMIT ELSE PAID_LIMIT

----------------------------------------------------------------------------
(* Properties of the ChartAnalysis component (specification SpecUI)        *)

\* C29: every handleAnalyze that sets isAnalyzing to true eventually sets
\* it back to false, whether analyzeChart returns success, returns a failure
\* result or throws; while isAnalyzing is true the Analyze button is disabled
\* and at most one analyzeChart call of the component is in flight
C29_AnalyzingEnds ==
    /\ [](isAnalyzing => ButtonDisabled)
    /\ [](inFlight <= 1)
    /\ [](inFlight = 1 => isAnalyzing)
    /\ isAnalyzing ~> ~isAnalyzing

\* a successful call and, after it, a failed call have both returned
C29_Witness ==
    /\ ~isAnalyzing
    /\ inFlight = 0
    /\ currentAnalysis \in Trends
    /\ error \in ResultErrors

====
